---------------------------- MODULE Spec2Model ----------------------------
(***************************************************************************)
(* Verification model of three source files of juniper:                    *)
(*   juniper_codegen/src/graphql_scalar/derive.rs   #[derive(GraphQLScalar)] *)
(*   juniper_codegen/src/derive_scalar_value.rs     #[derive(GraphQLScalarValue)] *)
(*   juniper/src/validation/rules/limit_number_of_aliases.rs               *)
(*                                                                         *)
(* Token streams produced by quote! are modelled as sequences of tokens    *)
(* (strings); an interpolated #x is the token (or tokens) x stands for.    *)
(* Option<T> is the record None or Some(v).                                *)
(***************************************************************************)
EXTENDS Integers, Sequences, FiniteSets, TLC

(***************************************************************************)
(* Bounds of the model.                                                    *)
(***************************************************************************)
\* entries (key or key = value) read over all #[graphql(...)] attributes
MaxEntries == 2
\* #[graphql(...)] attributes on one declaration
MaxFragments == 2
\* types listed in one parse_token(...)
MaxTypes == 2
\* fields of the struct the scalar derive is applied to
MaxFields == 2

(***************************************************************************)
(* Option<T>                                                               *)
(***************************************************************************)
None == [some |-> FALSE]

Some(v) == [some |-> TRUE, val |-> v]

IsSome(o) == o.some

IsNone(o) == ~o.some

\* Option::unwrap_or_else
UnwrapOrElse(o, d) == IF o.some THEN o.val ELSE d

\* Option<SpanContainer<T>>::as_deref().cloned(): the value without its spans
AsDeref(o) == IF o.some THEN Some(o.val.val) ELSE None

(***************************************************************************)
(* The input of the scalar derive: attribute entries.                      *)
(***************************************************************************)
\* the string literal, path or type written as the value of a key
Vals == {"a"}

\* the paths and types written as the value of a resolver key (to_output_with,
\* from_input_with, from_input_err, parse_token_with, with) of a declaration
\* that configures its resolvers
Paths == {"p", "q"}

\* a literal that does not parse as a Url
BadUrl == "not a url"

\* types that may be listed in parse_token
Types == {"T1", "T2"}

\* identifiers that are no option of the scalar derive
UnknownKeys == {"bogus", "rename"}

EqKeys ==
    {"name", "desc", "description", "scalar", "Scalar", "ScalarValue",
     "to_output_with", "from_input_with", "from_input_err",
     "parse_token_with", "with"}

SeqsUpTo(S, n) == UNION {[1..k -> S] : k \in 0..n}

\* one entry of an attribute: key, the form it is written in
\* ("eq": key = value, "paren": key(t, ...), "bare": key), its value and,
\* for the parenthesized form, the listed types
Entry(k, f, v, ts) == [key |-> k, form |-> f, val |-> v, types |-> ts]

Entries ==
    {Entry(k, "eq", v, <<>>) : k \in EqKeys, v \in Vals}
    \cup {Entry("specified_by_url", "eq", v, <<>>) : v \in Vals \cup {BadUrl}}
    \cup {Entry("parse_token", "eq", t, <<>>) : t \in Types}
    \cup {Entry("parse_token", "paren", "", ts) : ts \in SeqsUpTo(Types, MaxTypes)}
    \cup {Entry(k, "bare", "", <<>>) : k \in UnknownKeys}

(***************************************************************************)
(* SpanContainer and errors.  A span is the place of the token it was      *)
(* taken from: the ident (key) or the value of entry i of attribute f, or  *)
(* the whole declaration (ast.span()).                                     *)
(***************************************************************************)
SpanIdent(f, i) == [of |-> "ident", frag |-> f, idx |-> i]

SpanValue(f, i) == [of |-> "value", frag |-> f, idx |-> i]

SpanAst == [of |-> "ast", frag |-> 0, idx |-> 0]

SpanContainer(ident, expr, v) == [ident |-> ident, expr |-> expr, val |-> v]

Ok(v) == [ok |-> TRUE, val |-> v]

Err(kind, span, arg) == [ok |-> FALSE, kind |-> kind, span |-> span, arg |-> arg]

\* ParseToken::Custom / ParseToken::Delegated
ParseTokenCustom(p) == [variant |-> "Custom", path |-> p, types |-> <<>>]

ParseTokenDelegated(ts) == [variant |-> "Delegated", path |-> "", types |-> ts]

\* Attr::default()
AttrDefault ==
    [name |-> None, description |-> None, specified_by_url |-> None,
     scalar |-> None, to_output |-> None, from_input |-> None,
     from_input_err |-> None, parse_token |-> None, with |-> None]

AttrFields ==
    <<"name", "description", "specified_by_url", "scalar", "to_output",
      "from_input", "from_input_err", "parse_token", "with">>

(***************************************************************************)
(* Attr::parse (derive.rs 200-317): one iteration of the loop              *)
(* `while !input.is_empty()`, reading entry e, entry i of attribute f.     *)
(***************************************************************************)
\* out.<field>.replace(SpanContainer::new(..)).none_or_else(|_| err::dup_arg(&ident))?
\* as written by a plausible slip: the new value silently replaces the old one
ReplaceLastWins(out, field, sc, key) ==
    Ok([out EXCEPT ![field] = Some(sc)])

\* out.<field>.replace(SpanContainer::new(..)).none_or_else(|_| err::dup_arg(&ident))?
Replace(out, field, sc, key) ==
    IF out[field].some
        THEN Err("dup_arg", sc.ident, key)
        ELSE Ok([out EXCEPT ![field] = Some(sc)])

\* the field of Attr the arm of `match ident.to_string().as_str()` writes
AttrSlot(key) ==
    CASE key = "name" -> "name"
      [] key \in {"desc", "description"} -> "description"
      [] key = "specified_by_url" -> "specified_by_url"
      [] key \in {"scalar", "Scalar", "ScalarValue"} -> "scalar"
      [] key = "to_output_with" -> "to_output"
      [] key = "from_input_with" -> "from_input"
      [] key = "from_input_err" -> "from_input_err"
      [] key \in {"parse_token_with", "parse_token"} -> "parse_token"
      [] key = "with" -> "with"
      [] OTHER -> "unknown"

\* Attr::parse, one entry, without the is_empty check of lines 287-289: an
\* empty parenthesized list is taken as it is
AttrParseEntryAcceptEmpty(out, e, f, i) ==
    LET ident == SpanIdent(f, i)
        value == SpanValue(f, i)
    IN  CASE e.key \in {"name", "desc", "description", "scalar", "Scalar",
                        "ScalarValue", "to_output_with", "from_input_with",
                        "from_input_err", "with"} ->
                Replace(out, AttrSlot(e.key),
                        SpanContainer(ident, Some(value), e.val), e.key)
          [] e.key = "specified_by_url" ->
                IF e.val = BadUrl
                    THEN Err("invalid_url", value, e.key)
                    ELSE Replace(out, "specified_by_url",
                                 SpanContainer(ident, Some(value), e.val), e.key)
          [] e.key = "parse_token_with" ->
                Replace(out, "parse_token",
                        SpanContainer(ident, Some(value), ParseTokenCustom(e.val)),
                        e.key)
          [] e.key = "parse_token" ->
                Replace(out, "parse_token",
                        SpanContainer(ident, Some(value),
                                      ParseTokenDelegated(IF e.form = "eq"
                                                              THEN <<e.val>>
                                                              ELSE e.types)),
                        e.key)
          [] OTHER -> Err("unknown_arg", ident, e.key)

AttrParseEntry(out, e, f, i) ==
    LET ident == SpanIdent(f, i)
        value == SpanValue(f, i)
    IN  CASE e.key \in {"name", "desc", "description", "scalar", "Scalar",
                        "ScalarValue", "to_output_with", "from_input_with",
                        "from_input_err", "with"} ->
                Replace(out, AttrSlot(e.key),
                        SpanContainer(ident, Some(value), e.val), e.key)
          [] e.key = "specified_by_url" ->
                IF e.val = BadUrl
                    THEN Err("invalid_url", value, e.key)
                    ELSE Replace(out, "specified_by_url",
                                 SpanContainer(ident, Some(value), e.val), e.key)
          [] e.key = "parse_token_with" ->
                Replace(out, "parse_token",
                        SpanContainer(ident, Some(value), ParseTokenCustom(e.val)),
                        e.key)
          [] e.key = "parse_token" ->
                IF e.form = "eq"
                    THEN Replace(out, "parse_token",
                                 SpanContainer(ident, Some(value),
                                               ParseTokenDelegated(<<e.val>>)),
                                 e.key)
                    ELSE IF e.types = <<>>
                        THEN Err("no_types", ident, e.key)
                        ELSE Replace(out, "parse_token",
                                     SpanContainer(ident, Some(value),
                                                   ParseTokenDelegated(e.types)),
                                     e.key)
          [] OTHER -> Err("unknown_arg", ident, e.key)

(***************************************************************************)
(* Attr::try_merge (derive.rs 322-334).  The macro try_merge_opt! is       *)
(* defined outside the three files: field by field, a value present on     *)
(* both sides is a duplicate, otherwise the one present (if any) is kept.  *)
(***************************************************************************)
TryMergeOpt(field, self, another) ==
    IF self[field].some /\ another[field].some
        THEN Err("dup_arg", another[field].val.ident, field)
        ELSE Ok(IF self[field].some THEN self[field] ELSE another[field])

\* the fields are merged in the order of the struct literal; `?` returns the
\* first error
AttrTryMerge(self, another) ==
    LET dups == {k \in 1..Len(AttrFields) :
                    ~TryMergeOpt(AttrFields[k], self, another).ok}
    IN  IF dups # {}
            THEN TryMergeOpt(AttrFields[CHOOSE k \in dups : \A j \in dups : k <= j],
                             self, another)
            ELSE Ok([fld \in DOMAIN AttrDefault |->
                        TryMergeOpt(fld, self, another).val])


(***************************************************************************)
(* The declaration the scalar derive is applied to (syn::DeriveInput).     *)
(***************************************************************************)
\* ast.ident
DeclIdent == "Decl"

\* the k-th field of a struct: named x, y, z, ... of type X, Y, Z, ...
FieldNames == <<"x", "y", "z", "w">>

FieldTypes == <<"X", "Y", "Z", "W">>

SynField(style, k) ==
    [ident |-> IF style = "Named" THEN FieldNames[k] ELSE "", ty |-> FieldTypes[k]]

\* syn::Data: Struct with syn::Fields::{Unit, Unnamed, Named}, Enum or Union
DataStruct(style, n) ==
    [kind |-> "Struct", style |-> style, fields |-> [k \in 1..n |-> SynField(style, k)]]

DataOther(kind) == [kind |-> kind, style |-> "Unit", fields |-> <<>>]

Datas ==
    {DataOther("Enum"), DataOther("Union"), DataStruct("Unit", 0)}
    \cup {DataStruct(st, n) : st \in {"Unnamed", "Named"}, n \in 0..MaxFields}

\* the documentation text of the declaration (get_doc_comment)
Docs == {None, Some(SpanContainer(SpanAst, None, "doc"))}

(***************************************************************************)
(* expand (derive.rs 35-117): the strategy, GraphQLScalarMethods.          *)
(***************************************************************************)
MethodsCustom(to_output, from_input, parse_token) ==
    [variant |-> "Custom", to_output |-> to_output, from_input |-> from_input,
     parse_token |-> parse_token]

MethodsDelegated(to_output, from_input, parse_token, field) ==
    [variant |-> "Delegated", to_output |-> to_output, from_input |-> from_input,
     parse_token |-> parse_token, field |-> field]

\* Field::Named(f) / Field::Unnamed(f)
Field(variant, f) == [variant |-> variant, ident |-> f.ident, ty |-> f.ty]

\* parse_quote! { #module::member }
ModulePath(module, member) == module \o "::" \o member

\* SoleField taking the first field of a struct that has any: what the
\* `len() == 1` test of lines 90 and 101 rules out
SoleFieldFirst(data) ==
    CASE data.style = "Unit" -> Err("shape_unit", SpanAst, "")
      [] data.style = "Unnamed" ->
            IF Len(data.fields) >= 1
                THEN Ok(Field("Unnamed", data.fields[1]))
                ELSE Err("shape_unnamed", SpanAst, "")
      [] data.style = "Named" ->
            IF Len(data.fields) >= 1
                THEN Ok(Field("Named", data.fields[1]))
                ELSE Err("shape_named", SpanAst, "")

\* lines 81-109: the sole field of the struct, or the shape error
SoleField(data) ==
    CASE data.style = "Unit" -> Err("shape_unit", SpanAst, "")
      [] data.style = "Unnamed" ->
            IF Len(data.fields) >= 1 /\ Len(data.fields) = 1
                THEN Ok(Field("Unnamed", data.fields[1]))
                ELSE Err("shape_unnamed", SpanAst, "")
      [] data.style = "Named" ->
            IF Len(data.fields) >= 1 /\ Len(data.fields) = 1
                THEN Ok(Field("Named", data.fields[1]))
                ELSE Err("shape_named", SpanAst, "")

\* lines 60-116: the arm (to_output, from_input, from_input_err, parse_token, None)
ExpandDelegated(to_output, from_input, from_input_err, parse_token, data) ==
    IF from_input.some # from_input_err.some
        THEN Err("tandem", SpanAst, "")
    ELSE IF data.kind # "Struct"
        THEN Err("shape_not_struct", SpanAst, "")
    ELSE IF ~SoleField(data).ok
        THEN SoleField(data)
    ELSE Ok(MethodsDelegated(
                to_output,
                IF from_input.some
                    THEN Some(<<from_input.val, from_input_err.val>>)
                    ELSE None,
                parse_token,
                SoleField(data).val))

\* ExpandWithModule taking every behaviour from the module, the explicit
\* overrides dropped: what the unwrap_or_else of lines 51-57 rules out
ExpandWithModuleAliasWins(to_output, from_input, from_input_err, parse_token, module) ==
    Ok(MethodsCustom(
            ModulePath(module, "to_output"),
            <<ModulePath(module, "from_input"), ModulePath(module, "Error")>>,
            ParseTokenCustom(ModulePath(module, "parse_token"))))

\* ExpandWithModule naming the error type of the module after the option
\* key, module::from_input_err, where line 55 names module::Error
ExpandWithModuleErrKey(to_output, from_input, from_input_err, parse_token, module) ==
    Ok(MethodsCustom(
            UnwrapOrElse(to_output, ModulePath(module, "to_output")),
            <<UnwrapOrElse(from_input, ModulePath(module, "from_input")),
              UnwrapOrElse(from_input_err, ModulePath(module, "from_input_err"))>>,
            UnwrapOrElse(parse_token,
                         ParseTokenCustom(ModulePath(module, "parse_token")))))

\* lines 49-59: the arm (to_output, from_input, from_input_err, parse_token, Some(module))
ExpandWithModule(to_output, from_input, from_input_err, parse_token, module) ==
    Ok(MethodsCustom(
            UnwrapOrElse(to_output, ModulePath(module, "to_output")),
            <<UnwrapOrElse(from_input, ModulePath(module, "from_input")),
              UnwrapOrElse(from_input_err, ModulePath(module, "Error"))>>,
            UnwrapOrElse(parse_token,
                         ParseTokenCustom(ModulePath(module, "parse_token")))))

\* the match of lines 35-117 without its first arm (lines 42-48): four
\* explicit overrides and no module go on to the shape of the declaration
ExpandMethodsNoCustomArm(attr, data) ==
    LET to_output == AsDeref(attr.to_output)
        from_input == AsDeref(attr.from_input)
        from_input_err == AsDeref(attr.from_input_err)
        parse_token == AsDeref(attr.parse_token)
        with == AsDeref(attr.with)
    IN  IF with.some
            THEN ExpandWithModule(to_output, from_input, from_input_err,
                                  parse_token, with.val)
        ELSE ExpandDelegated(to_output, from_input, from_input_err,
                             parse_token, data)

\* lines 35-117: `let field = match (...) { ... }`
ExpandMethods(attr, data) ==
    LET to_output == AsDeref(attr.to_output)
        from_input == AsDeref(attr.from_input)
        from_input_err == AsDeref(attr.from_input_err)
        parse_token == AsDeref(attr.parse_token)
        with == AsDeref(attr.with)
    IN  IF to_output.some /\ from_input.some /\ from_input_err.some
           /\ parse_token.some /\ ~with.some
            THEN Ok(MethodsCustom(to_output.val,
                                  <<from_input.val, from_input_err.val>>,
                                  parse_token.val))
        ELSE IF with.some
            THEN ExpandWithModule(to_output, from_input, from_input_err,
                                  parse_token, with.val)
        ELSE ExpandDelegated(to_output, from_input, from_input_err,
                             parse_token, data)


(***************************************************************************)
(* scalar::Type::parse is defined outside the three files: the type named  *)
(* by the `scalar` option, else the implicit generic parameter.            *)
(***************************************************************************)
ScalarTypeParse(scalar) == IF scalar.some THEN scalar.val ELSE "__S"

(***************************************************************************)
(* Field (derive.rs 1007-1043)                                             *)
(***************************************************************************)
\* impl ToTokens for Field: the field's ident, or the literal 0
FieldToTokens(field) == IF field.variant = "Named" THEN field.ident ELSE "0"

FieldTy(field) == field.ty

\* Field::closure_constructor
ClosureConstructor(field) ==
    IF field.variant = "Named"
        THEN <<"|v|", "Self", "{", field.ident, ":", "v", "}">>
        ELSE <<"Self">>

(***************************************************************************)
(* ParseToken::expand_from_str (derive.rs 982-1003)                        *)
(***************************************************************************)
FromStrCall(ty, scalar) ==
    <<"<", ty, "as", "::juniper::ParseScalarValue", "<", scalar, ">", ">",
      "::from_str", "(", "token", ")">>

\* the fold of expand_from_str taken from the last type to the first
RECURSIVE FoldFromStrReversed(_, _, _)
FoldFromStrReversed(types, n, scalar) ==
    IF n = 0 THEN None
    ELSE LET acc == FoldFromStrReversed(types, n - 1, scalar)
             ty == types[Len(types) + 1 - n]
         IN  IF ~acc.some
                 THEN Some(FromStrCall(ty, scalar))
                 ELSE Some(acc.val \o <<".or_else", "(", "|_|", "{">>
                           \o FromStrCall(ty, scalar) \o <<"}", ")">>)

\* delegated.iter().fold(None, ..) over the first n types
RECURSIVE FoldFromStr(_, _, _)
FoldFromStr(types, n, scalar) ==
    IF n = 0 THEN None
    ELSE LET acc == FoldFromStr(types, n - 1, scalar)
         IN  IF ~acc.some
                 THEN Some(FromStrCall(types[n], scalar))
                 ELSE Some(acc.val \o <<".or_else", "(", "|_|", "{">>
                           \o FromStrCall(types[n], scalar) \o <<"}", ")">>)

ParseTokenExpandFromStr(parse_token, scalar) ==
    IF parse_token.variant = "Custom"
        THEN <<parse_token.path, "(", "token", ")">>
        ELSE UnwrapOrElse(FoldFromStr(parse_token.types, Len(parse_token.types),
                                      scalar), <<>>)

(***************************************************************************)
(* impl GraphQLScalarMethods (derive.rs 829-961)                           *)
(***************************************************************************)
\* the pattern Self::Custom { to_output, .. }
\*           | Self::Delegated { to_output: Some(to_output), .. }
HasToOutput(m) == m.variant = "Custom" \/ m.to_output.some

ToOutputOf(m) == IF m.variant = "Custom" THEN m.to_output ELSE m.to_output.val

HasFromInput(m) == m.variant = "Custom" \/ m.from_input.some

FromInputOf(m) == IF m.variant = "Custom" THEN m.from_input ELSE m.from_input.val

HasParseToken(m) == m.variant = "Custom" \/ m.parse_token.some

ParseTokenOf(m) == IF m.variant = "Custom" THEN m.parse_token ELSE m.parse_token.val

ExpandResolve(m, scalar) ==
    IF HasToOutput(m)
        THEN <<"Ok", "(", ToOutputOf(m), "(", "self", ")", ")">>
        ELSE <<"::juniper::GraphQLValue", "<", scalar, ">", "::resolve", "(",
               "&", "self", ".", FieldToTokens(m.field), ",", "info", ",",
               "selection", ",", "executor", ")">>

ExpandToOutput(m, scalar) ==
    IF HasToOutput(m)
        THEN <<ToOutputOf(m), "(", "self", ")">>
        ELSE <<"::juniper::GraphQLScalar", "<", scalar, ">", "::to_output", "(",
               "&", "self", ".", FieldToTokens(m.field), ")">>

\* expand_to_input_value matching Self::Custom only: a Delegated strategy
\* with a to_output override converts the field all the same
ExpandToInputValueCustomOnly(m, scalar) ==
    IF m.variant = "Custom"
        THEN <<"let", "v", "=", ToOutputOf(m), "(", "self", ")", ";",
               "::juniper::ToInputValue", "::to_input_value", "(", "&", "v", ")">>
        ELSE <<"::juniper::ToInputValue", "<", scalar, ">", "::to_input_value",
               "(", "&", "self", ".", FieldToTokens(m.field), ")">>

ExpandToInputValue(m, scalar) ==
    IF HasToOutput(m)
        THEN <<"let", "v", "=", ToOutputOf(m), "(", "self", ")", ";",
               "::juniper::ToInputValue", "::to_input_value", "(", "&", "v", ")">>
        ELSE <<"::juniper::ToInputValue", "<", scalar, ">", "::to_input_value",
               "(", "&", "self", ".", FieldToTokens(m.field), ")">>

\* expand_from_input_err matching Self::Custom only: a Delegated strategy
\* with a from_input override keeps the error type of the field
ExpandFromInputErrCustomOnly(m, scalar) ==
    IF m.variant = "Custom"
        THEN <<FromInputOf(m)[2]>>
        ELSE <<"<", FieldTy(m.field), "as", "::juniper::FromInputValue", "<",
               scalar, ">", ">", "::Error">>

ExpandFromInputErr(m, scalar) ==
    IF HasFromInput(m)
        THEN <<FromInputOf(m)[2]>>
        ELSE <<"<", FieldTy(m.field), "as", "::juniper::FromInputValue", "<",
               scalar, ">", ">", "::Error">>

\* expand_from_input without the `.map(self_constructor)` of line 936
ExpandFromInputNoMap(m, scalar) ==
    IF HasFromInput(m)
        THEN <<FromInputOf(m)[1], "(", "input", ")">>
        ELSE <<"<", FieldTy(m.field), "as", "::juniper::FromInputValue", "<",
               scalar, ">", ">", "::from_input_value", "(", "input", ")">>

ExpandFromInput(m, scalar) ==
    IF HasFromInput(m)
        THEN <<FromInputOf(m)[1], "(", "input", ")">>
        ELSE <<"<", FieldTy(m.field), "as", "::juniper::FromInputValue", "<",
               scalar, ">", ">", "::from_input_value", "(", "input", ")",
               ".map", "(">> \o ClosureConstructor(m.field) \o <<")">>

ExpandParseToken(m, scalar) ==
    IF HasParseToken(m)
        THEN ParseTokenExpandFromStr(ParseTokenOf(m), scalar)
        ELSE <<"<", FieldTy(m.field), "as", "::juniper::ParseScalarValue", "<",
               scalar, ">", ">", "::from_str", "(", "token", ")">>

(***************************************************************************)
(* Definition and its emitted implementations (derive.rs 121-134, 396-725) *)
(***************************************************************************)
\* lines 121-133: the Definition built from the merged Attr and the strategy
\* the Definition of lines 121-133 named after the declaration whatever the
\* attribute says
MakeDefinitionIdentName(at, ms) ==
    [ident |-> DeclIdent,
     methods |-> ms,
     name |-> DeclIdent,
     description |-> AsDeref(at.description),
     specified_by_url |-> AsDeref(at.specified_by_url),
     scalar |-> ScalarTypeParse(AsDeref(at.scalar))]

MakeDefinition(attr, methods) ==
    [ident |-> DeclIdent,
     methods |-> methods,
     name |-> UnwrapOrElse(AsDeref(attr.name), DeclIdent),
     description |-> AsDeref(attr.description),
     specified_by_url |-> AsDeref(attr.specified_by_url),
     scalar |-> ScalarTypeParse(AsDeref(attr.scalar))]

\* impl_type_tokens attaching an empty description when there is none
ImplTypeTokensAlwaysDescribed(def) ==
    [name |-> <<"Some", "(", def.name, ")">>,
     meta |-> <<"registry", ".build_scalar_type", "(", "info", ")">>
              \o <<".description", "(",
                   IF def.description.some THEN def.description.val ELSE "", ")">>
              \o (IF def.specified_by_url.some
                      THEN <<".specified_by_url", "(", def.specified_by_url.val, ")">>
                      ELSE <<>>)
              \o <<".into_meta", "(", ")">>]

\* impl_type_tokens: fn name, and the builder chain of fn meta
ImplTypeTokens(def) ==
    [name |-> <<"Some", "(", def.name, ")">>,
     meta |-> <<"registry", ".build_scalar_type", "(", "info", ")">>
              \o (IF def.description.some
                      THEN <<".description", "(", def.description.val, ")">>
                      ELSE <<>>)
              \o (IF def.specified_by_url.some
                      THEN <<".specified_by_url", "(", def.specified_by_url.val, ")">>
                      ELSE <<>>)
              \o <<".into_meta", "(", ")">>]

\* impl_reflection_traits_tokens listing the type twice among its subtypes
ImplReflectionTraitsTokensTwice(def) ==
    [NAME |-> <<def.name>>,
     NAMES |-> <<"&", "[", "<Self as BaseType>::NAME", ",",
                 "<Self as BaseType>::NAME", "]">>,
     VALUE |-> <<"1">>]

\* impl_reflection_traits_tokens
ImplReflectionTraitsTokens(def) ==
    [NAME |-> <<def.name>>,
     NAMES |-> <<"&", "[", "<Self as BaseType>::NAME", "]">>,
     VALUE |-> <<"1">>]

\* to_tokens of the scalar Definition leaving out the token-parsing
\* implementation: what the nine calls of lines 398-406 rule out
DefinitionToTokensPartial(def) ==
    [IsInputOutputType |-> <<"IsInputType", "IsOutputType">>,
     GraphQLType |-> ImplTypeTokens(def),
     GraphQLValue |-> [resolve |-> ExpandResolve(def.methods, def.scalar)],
     GraphQLValueAsync |->
        [resolve_async |-> <<"::juniper::GraphQLValue::resolve", "(", "self", ",",
                             "info", ",", "selection_set", ",", "executor", ")">>],
     ToInputValue |->
        [to_input_value |-> ExpandToInputValue(def.methods, def.scalar)],
     FromInputValue |->
        [Error |-> ExpandFromInputErr(def.methods, def.scalar),
         from_input_value |-> ExpandFromInput(def.methods, def.scalar)],
     GraphQLScalar |->
        [Error |-> ExpandFromInputErr(def.methods, def.scalar),
         to_output |-> ExpandToOutput(def.methods, def.scalar),
         from_input |-> ExpandFromInput(def.methods, def.scalar),
         parse_token |-> ExpandParseToken(def.methods, def.scalar)],
     Reflection |-> ImplReflectionTraitsTokens(def)]

\* impl ToTokens for Definition: the nine groups of implementations
DefinitionToTokens(def) ==
    [IsInputOutputType |-> <<"IsInputType", "IsOutputType">>,
     GraphQLType |-> ImplTypeTokens(def),
     GraphQLValue |-> [resolve |-> ExpandResolve(def.methods, def.scalar)],
     GraphQLValueAsync |->
        [resolve_async |-> <<"::juniper::GraphQLValue::resolve", "(", "self", ",",
                             "info", ",", "selection_set", ",", "executor", ")">>],
     ToInputValue |->
        [to_input_value |-> ExpandToInputValue(def.methods, def.scalar)],
     FromInputValue |->
        [Error |-> ExpandFromInputErr(def.methods, def.scalar),
         from_input_value |-> ExpandFromInput(def.methods, def.scalar)],
     ParseScalarValue |->
        [from_str |-> ExpandParseToken(def.methods, def.scalar)],
     GraphQLScalar |->
        [Error |-> ExpandFromInputErr(def.methods, def.scalar),
         to_output |-> ExpandToOutput(def.methods, def.scalar),
         from_input |-> ExpandFromInput(def.methods, def.scalar),
         parse_token |-> ExpandParseToken(def.methods, def.scalar)],
     Reflection |-> ImplReflectionTraitsTokens(def)]


(***************************************************************************)
(* State of one expansion of #[derive(GraphQLScalar)].                     *)
(*   pc      where expand is: "parse" (in Attr::from_attrs), "expand"      *)
(*           (line 35, the merged Attr at hand), "done" (returned)         *)
(*   attrs   the #[graphql(...)] attributes read completely so far         *)
(*   cur     the entries read so far of the attribute being parsed         *)
(*   out     Attr::parse's `out` for the attribute being parsed            *)
(*   attr    the accumulator of try_fold, then the merged Attr             *)
(*   doc     the documentation text of the declaration (get_doc_comment)   *)
(*   data    ast.data of the declaration, once expand has got to line 35   *)
(*   definition  the Definition built on lines 121-133                     *)
(*   result  what expand returned: Ok(TokenStream) or Err                  *)
(***************************************************************************)
VARIABLES pc, attrs, cur, out, attr, doc, data, definition, result

scalarVars == <<pc, attrs, cur, out, attr, doc, data, definition, result>>

(***************************************************************************)
(* State of one expansion of #[derive(GraphQLScalarValue)].                *)
(*   vpc       where expand is: "start", "variants" (at the head of the    *)
(*             loop over the variants), "attrs" (in VariantAttr::from_attrs *)
(*             of the variant at hand), "done" (returned)                  *)
(*   data_enum the fields of the variants of the enum, in declaration      *)
(*             order (syn::DataEnum), once line 28 has matched ast.data    *)
(*   variants  the variants the loop has gone through                      *)
(*   var       the variant at hand: its ident, its fields and its Field    *)
(*   vattrs    its #[graphql(...)] attributes read completely so far       *)
(*   vcur      the entries read so far of the attribute being parsed       *)
(*   vout      VariantAttr::parse's `out` for the attribute being parsed   *)
(*   vattr     the accumulator of try_fold                                 *)
(*   methods   the HashMap<Method, Vec<Variant>> of expand                 *)
(*   vresult   what expand returned: Ok(TokenStream) or Err                *)
(***************************************************************************)
VARIABLES vpc, data_enum, variants, var, vattrs, vcur, vout, vattr, methods, vresult

valueVars ==
    <<vpc, data_enum, variants, var, vattrs, vcur, vout, vattr, methods, vresult>>

(***************************************************************************)
(* State of one run of Definition::impl_display_tokens                     *)
(* (derive_scalar_value.rs 304-346).                                       *)
(*   dpc         where it is: "loop" (lines 309-321), "done" (returned)    *)
(*   generics    self.generics.params: the generic parameters of the enum  *)
(*   payloads    the type of the sole field of each variant, in order      *)
(*   checked     check.res of each variant the loop has gone through       *)
(*   predicates  the predicates pushed on the where clause so far          *)
(*   dresult     the tokens returned                                       *)
(***************************************************************************)
VARIABLES dpc, generics, payloads, checked, predicates, dresult

displayVars == <<dpc, generics, payloads, checked, predicates, dresult>>

(***************************************************************************)
(* State of the validation rule Aliases (limit_number_of_aliases.rs).      *)
(*   apc          "created" after factory(), "operation" once an operation *)
(*                definition has been entered, "panicked" once             *)
(*                `alias_count += 1` has overflowed in a build with        *)
(*                overflow checks                                          *)
(*   alias_count  the field of Aliases, a u8                               *)
(*   max_allowed  the field of Aliases, a u8                               *)
(*   field_alias  field.item.alias of the field entered last               *)
(*   op_aliased   the aliased fields entered since the operation at hand   *)
(*                was entered (the i of "the i-th aliased field")          *)
(*   op_errors    the errors reported to ctx since then                    *)
(*   last_error   what the last enter_field reported to ctx                *)
(*   op_index     the operation definitions entered so far                 *)
(*   earlier_aliased  the aliased fields entered before the operation at   *)
(*                hand was                                                 *)
(*   in_fragment  a fragment definition has been entered since the         *)
(*                operation at hand was (or since factory())               *)
(***************************************************************************)
VARIABLES apc, alias_count, max_allowed, field_alias, op_aliased, op_errors,
          last_error, op_index, earlier_aliased, in_fragment

aliasVars ==
    <<apc, alias_count, max_allowed, field_alias, op_aliased, op_errors,
      last_error, op_index, earlier_aliased, in_fragment>>

(***************************************************************************)
(* State of one call of parse_args on one #[graphql(...)] attribute.       *)
(*   ppc       "start", "done" once Parse::parse has returned              *)
(*   fragment  the attribute: the derive it belongs to ("scalar": Attr,    *)
(*             "value": VariantAttr) and its entries as written            *)
(*   parsed    what parse returned: Ok(Attr), Ok(VariantAttr) or Err       *)
(***************************************************************************)
VARIABLES ppc, fragment, parsed

parseVars == <<ppc, fragment, parsed>>

vars == <<scalarVars, valueVars, displayVars, aliasVars, parseVars>>

NoError == [message |-> <<>>, locations |-> <<>>]

\* impl_display_tokens is not running
DisplayIdle ==
    /\ dpc = "idle"
    /\ generics = <<>>
    /\ payloads = <<>>
    /\ checked = <<>>
    /\ predicates = <<>>
    /\ dresult = <<>>

\* no document is being validated
AliasIdle ==
    /\ apc = "idle"
    /\ alias_count = 0
    /\ max_allowed = 0
    /\ field_alias = [some |-> FALSE]
    /\ op_aliased = 0
    /\ op_errors = 0
    /\ last_error = NoError
    /\ op_index = 0
    /\ earlier_aliased = 0
    /\ in_fragment = FALSE

Unread == [kind |-> "Unread", style |-> "Unit", fields |-> <<>>]

NoDefinition == [ident |-> ""]

NoResult == [ok |-> FALSE, kind |-> "running", span |-> SpanAst, arg |-> ""]

\* no attribute is being parsed on its own
ParseIdle ==
    /\ ppc = "idle"
    /\ fragment = [derive |-> "", entries |-> <<>>]
    /\ parsed = NoResult

\* entries read so far over all attributes
EntriesRead ==
    LET RECURSIVE Sum(_)
        Sum(n) == IF n = 0 THEN 0 ELSE Len(attrs[n]) + Sum(n - 1)
    IN  Sum(Len(attrs)) + Len(cur)

ScalarInit ==
    /\ pc = "parse"
    /\ attrs = <<>>
    /\ cur = <<>>
    /\ out = AttrDefault
    /\ attr = AttrDefault
    /\ doc = None
    /\ data = Unread
    /\ definition = NoDefinition
    /\ result = NoResult

\* Attr::parse, one iteration of its loop: the next entry of the attribute
\* is e.  An error is returned by parse_args, by `curr?` in from_attrs and by
\* `?` on line 33 of expand.
ParseEntry(e) ==
    /\ pc = "parse"
    /\ EntriesRead < MaxEntries
    /\ Len(attrs) < MaxFragments
    /\ LET r == AttrParseEntry(out, e, Len(attrs) + 1, Len(cur) + 1)
       IN  IF r.ok
               THEN /\ out' = r.val
                    /\ cur' = Append(cur, e)
                    /\ UNCHANGED <<pc, attrs, result>>
               ELSE /\ result' = r
                    /\ pc' = "done"
                    /\ attrs' = Append(attrs, Append(cur, e))
                    /\ cur' = <<>>
                    /\ UNCHANGED out
    /\ UNCHANGED <<attr, doc, data, definition>>
    /\ UNCHANGED <<valueVars, displayVars, aliasVars, parseVars>>

\* the attribute is exhausted: parse returns Ok(out) and try_fold merges it
\* into the accumulator (prev.try_merge(curr?))
EndAttr ==
    /\ pc = "parse"
    /\ Len(attrs) < MaxFragments
    /\ LET r == AttrTryMerge(attr, out)
       IN  IF r.ok
               THEN /\ attr' = r.val
                    /\ UNCHANGED <<pc, result>>
               ELSE /\ result' = r
                    /\ pc' = "done"
                    /\ UNCHANGED attr
    /\ attrs' = Append(attrs, cur)
    /\ cur' = <<>>
    /\ out' = AttrDefault
    /\ UNCHANGED <<doc, data, definition>>
    /\ UNCHANGED <<valueVars, displayVars, aliasVars, parseVars>>

\* no attribute is left: from_attrs falls back to the documentation text
\* (lines 343-345) and returns the merged Attr
FromAttrsDone ==
    /\ pc = "parse"
    /\ cur = <<>>
    /\ \E d \in Docs :
            /\ doc' = d
            /\ attr' = IF ~attr.description.some
                           THEN [attr EXCEPT !.description = d]
                           ELSE attr
    /\ pc' = "expand"
    /\ UNCHANGED <<attrs, cur, out, data, definition, result>>
    /\ UNCHANGED <<valueVars, displayVars, aliasVars, parseVars>>

\* lines 35-135 of expand on a declaration whose ast.data is d
Expand(d) ==
    /\ pc = "expand"
    /\ data' = d
    /\ LET m == ExpandMethods(attr, d)
       IN  IF m.ok
               THEN /\ definition' = MakeDefinition(attr, m.val)
                    /\ result' = Ok(DefinitionToTokens(MakeDefinition(attr, m.val)))
               ELSE /\ definition' = NoDefinition
                    /\ result' = m
    /\ pc' = "done"
    /\ UNCHANGED <<attrs, cur, out, attr, doc>>
    /\ UNCHANGED <<valueVars, displayVars, aliasVars, parseVars>>

NoVariant == [ident |-> "", shape |-> [style |-> "Unit", n |-> 0]]

\* the value derive is not running
ValueIdle ==
    /\ vpc = "idle"
    /\ data_enum = <<>>
    /\ variants = <<>>
    /\ var = NoVariant
    /\ vattrs = <<>>
    /\ vcur = <<>>
    /\ vout = <<>>
    /\ vattr = <<>>
    /\ methods = <<>>
    /\ vresult = NoResult

Init == ScalarInit /\ ValueIdle /\ DisplayIdle /\ AliasIdle /\ ParseIdle

Next ==
    \/ \E e \in Entries : ParseEntry(e)
    \/ EndAttr
    \/ FromAttrsDone
    \/ \E d \in Datas : Expand(d)

Spec == Init /\ [][Next]_vars


(***************************************************************************)
(* Declarations that configure their resolvers: one #[graphql(...)]        *)
(* attribute naming each option at most once, in the order of the fields   *)
(* of Attr.  ConfigInit is the state of expand when Attr::parse has read   *)
(* the last entry of that attribute.                                       *)
(***************************************************************************)
Absent == Entry("", "bare", "", <<>>)

OptEntries(key, vs) == {Absent} \cup {Entry(key, "eq", v, <<>>) : v \in vs}

ParseTokenEntries ==
    OptEntries("parse_token_with", Paths)
    \cup {Entry("parse_token", "eq", t, <<>>) : t \in Types}
    \cup {Entry("parse_token", "paren", "", ts) :
            ts \in SeqsUpTo(Types, MaxTypes) \ {<<>>}}

Present(e) == e.key # ""

ConfigFragments ==
    {SelectSeq(<<e1, e2, e3, e4, e5, e6, e7, e8, e9>>, Present) :
        e1 \in OptEntries("name", Vals),
        e2 \in OptEntries("description", Vals),
        e3 \in OptEntries("specified_by_url", Vals),
        e4 \in OptEntries("scalar", Vals),
        e5 \in OptEntries("to_output_with", Paths),
        e6 \in OptEntries("from_input_with", Paths),
        e7 \in OptEntries("from_input_err", Paths),
        e8 \in ParseTokenEntries,
        e9 \in OptEntries("with", Paths)}

\* Attr::parse over the first n entries of the attribute es, none of which
\* repeats an option
RECURSIVE ParseAll(_, _)
ParseAll(es, n) ==
    IF n = 0 THEN AttrDefault
    ELSE AttrParseEntry(ParseAll(es, n - 1), es[n], 1, n).val

ConfigInit ==
    /\ pc = "parse"
    /\ attrs = <<>>
    /\ cur \in ConfigFragments
    /\ out = ParseAll(cur, Len(cur))
    /\ attr = AttrDefault
    /\ doc = None
    /\ data = Unread
    /\ definition = NoDefinition
    /\ result = NoResult
    /\ ValueIdle
    /\ DisplayIdle
    /\ AliasIdle
    /\ ParseIdle

NextExpand ==
    \/ EndAttr
    \/ FromAttrsDone
    \/ \E d \in Datas : Expand(d)

SpecExpand == ConfigInit /\ [][NextExpand]_vars


(***************************************************************************)
(***************************************************************************)
(* #[derive(GraphQLScalarValue)]  (derive_scalar_value.rs)                 *)
(***************************************************************************)
(***************************************************************************)
\* variants of the enum the derive is applied to
MaxVariants == 2
\* entries read over all #[graphql(...)] attributes of all variants
MaxVEntries == 2

\* enum Method, in the order of the tables of impl_scalar_value_tokens and
\* emit_warnings_tokens
Methods == <<"AsInt", "AsFloat", "AsStr", "AsString", "IntoString", "AsBoolean">>

MethodKeys ==
    {"as_int", "as_float", "as_str", "as_string", "into_string", "as_bool",
     "as_boolean"}

\* the resolver a user may write after `=`
Resolvers == {"f"}

\* one entry of a variant's attribute: key, or key = resolver
VEntry(k, expr) == [key |-> k, expr |-> expr]

VEntries ==
    {VEntry(k, x) : k \in MethodKeys, x \in {None} \cup {Some(r) : r \in Resolvers}}
    \cup {VEntry(k, None) : k \in UnknownKeys}

VariantIdents == <<"V1", "V2", "V3", "V4">>

\* syn::Fields of a variant: Unit, Unnamed (n fields) or Named (n fields)
VariantShapes ==
    {[style |-> "Unit", n |-> 0]}
    \cup {[style |-> st, n |-> n] : st \in {"Unnamed", "Named"}, n \in 0..MaxFields}

\* syn::DataEnum: the fields of each variant, in declaration order
EnumDecls == SeqsUpTo(VariantShapes, MaxVariants)

(***************************************************************************)
(* impl TryFrom<syn::Fields> for Field (derive_scalar_value.rs 419-433)    *)
(***************************************************************************)
\* Field::try_from taking the first field of a variant that has any: what
\* the `len() == 1` guards of lines 424 and 427 rule out
FieldTryFromFirst(shape) ==
    CASE shape.style = "Named" /\ shape.n >= 1 -> Ok(Field("Named", SynField("Named", 1)))
      [] shape.style = "Unnamed" /\ shape.n >= 1 ->
            Ok(Field("Unnamed", SynField("Unnamed", 1)))
      [] OTHER -> Err("shape_variant", SpanValue(0, 0), "")

FieldTryFrom(shape) ==
    CASE shape.style = "Named" /\ shape.n = 1 -> Ok(Field("Named", SynField("Named", 1)))
      [] shape.style = "Unnamed" /\ shape.n = 1 ->
            Ok(Field("Unnamed", SynField("Unnamed", 1)))
      [] OTHER -> Err("shape_variant", SpanValue(0, 0), "")

(***************************************************************************)
(* VariantAttr::parse (82-112): one iteration of the loop on entry e,      *)
(* entry i of attribute f of the variant.                                  *)
(***************************************************************************)
MethodOf(key) ==
    CASE key = "as_int" -> "AsInt"
      [] key = "as_float" -> "AsFloat"
      [] key = "as_str" -> "AsStr"
      [] key = "as_string" -> "AsString"
      [] key = "into_string" -> "IntoString"
      [] key \in {"as_bool", "as_boolean"} -> "AsBoolean"
      [] OTHER -> "unknown"

VariantAttrParseEntry(vec, e, f, i) ==
    IF MethodOf(e.key) = "unknown"
        THEN Err("unknown_arg", SpanIdent(f, i), e.key)
        ELSE Ok(Append(vec,
                       SpanContainer(SpanIdent(f, i),
                                     IF e.expr.some THEN Some(SpanValue(f, i)) ELSE None,
                                     <<MethodOf(e.key), e.expr>>)))

(***************************************************************************)
(* VariantAttr::try_merge (117-125).  SpanContainer<T> is generic in the   *)
(* value it carries, so `contains` compares the carried values: here the   *)
(* pairs (Method, Option<syn::ExprPath>).                                  *)
(***************************************************************************)
Contains(vec, m) == \E k \in 1..Len(vec) : vec[k].val = m.val

VariantAttrTryMerge(self, another) ==
    LET dups == {k \in 1..Len(another) : Contains(self, another[k])}
    IN  IF dups # {}
            THEN Err("dup_arg",
                     another[CHOOSE k \in dups : \A j \in dups : k <= j].ident,
                     another[CHOOSE k \in dups : \A j \in dups : k <= j].val[1])
            ELSE Ok(self \o another)

(***************************************************************************)
(* expand (33-44): the variant's merged attributes are entered into the    *)
(* HashMap<Method, Vec<Variant>>                                           *)
(***************************************************************************)
Variant(ident, field, expr) == [ident |-> ident, field |-> field, expr |-> expr]

\* methods.entry(method).or_default().push(v)
EntryPush(tbl, method, v) ==
    IF method \in DOMAIN tbl
        THEN [tbl EXCEPT ![method] = Append(@, v)]
        ELSE tbl @@ (method :> <<v>>)

\* the loop `for attr in VariantAttr::from_attrs(..)?.0` over the first n
RECURSIVE PushAll(_, _, _, _, _)
PushAll(tbl, merged, n, ident, field) ==
    IF n = 0 THEN tbl
    ELSE EntryPush(PushAll(tbl, merged, n - 1, ident, field),
                   merged[n].val[1],
                   Variant(ident, field, merged[n].val[2]))


(***************************************************************************)
(* Emitted code (derive_scalar_value.rs 159-375)                           *)
(***************************************************************************)
\* Field::match_arg
FieldMatchArg(field) ==
    IF field.variant = "Named"
        THEN <<"{", field.ident, ":", "v", "}">>
        ELSE <<"(", "v", ")">>

\* Variant::match_arm
VariantMatchArm(v) == <<"Self::", v.ident>> \o FieldMatchArg(v.field)

\* the table `let methods = [...]` of impl_scalar_value_tokens: the method,
\* its signature and its default conversion
MethodTable ==
    <<[method |-> "AsInt", sig |-> "fn as_int(&self) -> Option<i32>",
       def |-> <<"i32::from", "(", "*v", ")">>],
      [method |-> "AsFloat", sig |-> "fn as_float(&self) -> Option<f64>",
       def |-> <<"f64::from", "(", "*v", ")">>],
      [method |-> "AsStr", sig |-> "fn as_str(&self) -> Option<&str>",
       def |-> <<"std::convert::AsRef::as_ref", "(", "v", ")">>],
      [method |-> "AsString", sig |-> "fn as_string(&self) -> Option<String>",
       def |-> <<"std::string::ToString::to_string", "(", "v", ")">>],
      [method |-> "IntoString", sig |-> "fn into_string(self) -> Option<String>",
       def |-> <<"std::string::String::from", "(", "v", ")">>],
      [method |-> "AsBoolean", sig |-> "fn as_boolean(&self) -> Option<bool>",
       def |-> <<"bool::from", "(", "*v", ")">>]>>

\* a lookup that falls back on the variants of another method when the
\* table has none for m: what `self.methods.get(m)` of line 213 rules out
MethodsGetOrAny(tbl, m) ==
    IF m \in DOMAIN tbl THEN tbl[m]
    ELSE IF DOMAIN tbl = {} THEN <<>>
    ELSE tbl[CHOOSE k \in DOMAIN tbl : TRUE]

\* self.methods.get(m).into_iter().flatten()
MethodsGet(tbl, m) == IF m \in DOMAIN tbl THEN tbl[m] ELSE <<>>

\* one match arm: `#arm => Some(#call),`
MatchArm(v, def) ==
    [pat |-> VariantMatchArm(v),
     call |-> IF v.expr.some THEN <<v.expr.val, "(", "v", ")">> ELSE def]

\* impl_scalar_value_tokens: per method, its arms followed by `_ => None`
ImplScalarValueTokens(tbl) ==
    [k \in 1..Len(MethodTable) |->
        [sig |-> MethodTable[k].sig,
         arms |-> [j \in 1..Len(MethodsGet(tbl, MethodTable[k].method)) |->
                      MatchArm(MethodsGet(tbl, MethodTable[k].method)[j],
                               MethodTable[k].def)],
         otherwise |-> <<"_", "=>", "None">>]]

\* impl_from_tokens over the variants that carry an attribute only: what
\* iterating `self.variants` (line 248), not `self.methods`, rules out
ImplFromTokensOptedOnly(vs) ==
    LET opted == SelectSeq(vs, LAMBDA v : v.attrs # <<>>)
    IN  [k \in 1..Len(opted) |->
            LET var_field == FieldMatchArg(FieldTryFrom(opted[k].shape).val)
                pat == <<DeclIdent, "::", opted[k].ident>> \o var_field
            IN  [var_ty |-> FieldTryFrom(opted[k].shape).val.ty,
                 from |-> <<"Self::", opted[k].ident>> \o var_field,
                 into_option |->
                    <<"if", "let">> \o pat \o <<"=", "ty", "{", "Some", "(", "v", ")",
                      "}", "else", "{", "None", "}">>,
                 ref_into_option |->
                    <<"if", "let">> \o pat \o <<"=", "ty", "{", "Some", "(", "v", ")",
                      "}", "else", "{", "None", "}">>]]

\* impl_from_tokens: per variant of the enum, From<payload> for the enum and
\* the two inverse conversions (owning and by reference)
ImplFromTokens(vs) ==
    [k \in 1..Len(vs) |->
        LET var_field == FieldMatchArg(FieldTryFrom(vs[k].shape).val)
            pat == <<DeclIdent, "::", vs[k].ident>> \o var_field
        IN  [var_ty |-> FieldTryFrom(vs[k].shape).val.ty,
             from |-> <<"Self::", vs[k].ident>> \o var_field,
             into_option |->
                <<"if", "let">> \o pat \o <<"=", "ty", "{", "Some", "(", "v", ")",
                  "}", "else", "{", "None", "}">>,
             ref_into_option |->
                <<"if", "let">> \o pat \o <<"=", "ty", "{", "Some", "(", "v", ")",
                  "}", "else", "{", "None", "}">>]]

\* emit_warnings_tokens: the notes of the methods missing from the map (the
\* backquotes around the attribute's name are left out of the strings)
WarningTable ==
    <<[method |-> "AsInt", note |-> "missing as_int attribute"],
      [method |-> "AsFloat", note |-> "missing as_float attribute"],
      [method |-> "AsStr", note |-> "missing as_str attribute"],
      [method |-> "AsString", note |-> "missing as_string attribute"],
      [method |-> "IntoString", note |-> "missing into_string attribute"],
      [method |-> "AsBoolean", note |-> "missing as_boolean attribute"]>>

\* the filter of emit_warnings_tokens passing every note as soon as the map
\* has no method at all: what `!self.methods.contains_key(method)`, asked
\* per method on line 362, rules out
NotContainedWhenEmpty(tbl) ==
    SelectSeq(WarningTable, LAMBDA w : DOMAIN tbl = {})

NotContained(tbl) ==
    SelectSeq(WarningTable, LAMBDA w : w.method \notin DOMAIN tbl)

EmitWarningsTokens(tbl) ==
    [k \in 1..Len(NotContained(tbl)) |-> NotContained(tbl)[k].note]

(***************************************************************************)
(* Types of payload fields (syn::Type), as far as the visitor of           *)
(* IsVariantGeneric tells them apart: a path of one segment, with or       *)
(* without type arguments, a tuple, a reference.                           *)
(***************************************************************************)
TypePath(ident, args) == [node |-> "Path", ident |-> ident, args |-> args]

TypeTuple(elems) == [node |-> "Tuple", ident |-> "", args |-> elems]

TypeReference(elem) == [node |-> "Reference", ident |-> "", args |-> <<elem>>]

\* T (a type parameter when the enum declares it) and the concrete i32
TypeIdents == {TypePath("T", <<>>), TypePath("i32", <<>>)}

\* T, i32, Wrapper<T>, &T, (T, i32), ...
SimpleTypes ==
    TypeIdents
    \cup {TypePath("Wrapper", <<t>>) : t \in TypeIdents}
    \cup {TypeReference(t) : t \in TypeIdents}
    \cup {TypeTuple(<<t, u>>) : t \in TypeIdents, u \in TypeIdents}

\* ... and Wrapper<Wrapper<T>>, &Wrapper<T>, Wrapper<(T, i32)>, &&T, ...
PayloadTypes ==
    SimpleTypes
    \cup {TypePath("Wrapper", <<t>>) : t \in SimpleTypes}
    \cup {TypeReference(t) : t \in SimpleTypes}

\* syn::Generics.params of the enum: none, <T>, <'a, T>
GenericParams ==
    {<<>>,
     <<[kind |-> "Type", ident |-> "T"]>>,
     <<[kind |-> "Lifetime", ident |-> "a"], [kind |-> "Type", ident |-> "T"]>>}

(***************************************************************************)
(* IsVariantGeneric (derive_scalar_value.rs 445-482)                       *)
(***************************************************************************)
\* syn::Path::get_ident: Some for a path of one segment without arguments
GetIdent(path) == IF path.args = <<>> THEN Some(path.ident) ELSE None

\* lines 468-474: some type parameter of the enum has this ident
IsGeneric(gens, ident) ==
    \E k \in 1..Len(gens) : gens[k].kind = "Type" /\ gens[k].ident = ident

RECURSIVE VisitType(_, _)
\* syn::visit::visit_path, the walk visit_path overrides: it goes on into
\* the type arguments of the path; TRUE when res is set on the way
SynVisitPath(gens, path) ==
    \E k \in 1..Len(path.args) : VisitType(gens, path.args[k])

\* lines 466-481: TRUE when the visit of the path sets res
VisitPath(gens, path) ==
    IF GetIdent(path).some
        THEN IF IsGeneric(gens, GetIdent(path).val)
                 THEN TRUE
                 ELSE SynVisitPath(gens, path)
        ELSE FALSE

\* syn::visit::visit_type: a path goes to visit_path, a tuple and a
\* reference to visit_type of their elements
VisitType(gens, ty) ==
    IF ty.node = "Path"
        THEN VisitPath(gens, ty)
        ELSE \E k \in 1..Len(ty.args) : VisitType(gens, ty.args[k])

\* lines 311-313: IsVariantGeneric::new(..), check.visit_type(ty), check.res
IsVariantGeneric(gens, ty) == VisitType(gens, ty)

(***************************************************************************)
(* Definition::impl_display_tokens (derive_scalar_value.rs 304-346)        *)
(***************************************************************************)
\* the bound pushed for the payloads the check finds independent of the
\* generics, none for the dependent ones: the test of line 313 negated
DisplayPredicateIfIndependent(found, ty) ==
    IF ~found THEN <<[ty |-> ty, bound |-> "std::fmt::Display"]>> ELSE <<>>

\* lines 313-320: the predicate `#var_ty: std::fmt::Display` pushed on the
\* where clause when check.res is set
DisplayPredicate(found, ty) ==
    IF found THEN <<[ty |-> ty, bound |-> "std::fmt::Display"]>> ELSE <<>>

\* lines 309-321 over the first n payload types
RECURSIVE DisplayWhere(_, _, _)
DisplayWhere(gens, tys, n) ==
    IF n = 0 THEN <<>>
    ELSE DisplayWhere(gens, tys, n - 1)
         \o DisplayPredicate(IsVariantGeneric(gens, tys[n]), tys[n])

\* lines 324-333: the arm of a variant, its field named (Some) or not
DisplayArm(ident, field_ident) ==
    <<"Self::", ident>>
    \o (IF field_ident.some THEN <<"{", field_ident.val, ":", "v", "}">>
                            ELSE <<"(", "v", ")">>)
    \o <<"=>", "std::fmt::Display::fmt", "(", "v", ",", "f", ")">>

\* impl_display_tokens of an enum without generic parameters whose variants
\* are vs
ImplDisplayTokens(vs) ==
    [where |-> DisplayWhere(<<>>,
                            [k \in 1..Len(vs) |->
                                TypePath(FieldTryFrom(vs[k].shape).val.ty, <<>>)],
                            Len(vs)),
     arms |-> [k \in 1..Len(vs) |->
                  DisplayArm(vs[k].ident,
                             IF vs[k].shape.style = "Named"
                                 THEN Some(FieldTryFrom(vs[k].shape).val.ident)
                                 ELSE None)]]

\* impl ToTokens for Definition
ValueDefinitionToTokens(vs, tbl) ==
    [ScalarValue |-> ImplScalarValueTokens(tbl),
     From |-> ImplFromTokens(vs),
     Display |-> ImplDisplayTokens(vs),
     Warnings |-> EmitWarningsTokens(tbl)]


(***************************************************************************)
(* expand of #[derive(GraphQLScalarValue)] (derive_scalar_value.rs 25-53)  *)
(***************************************************************************)
\* the scalar derive is not running
ScalarIdle ==
    /\ pc = "idle"
    /\ attrs = <<>>
    /\ cur = <<>>
    /\ out = AttrDefault
    /\ attr = AttrDefault
    /\ doc = None
    /\ data = Unread
    /\ definition = NoDefinition
    /\ result = NoResult

ValueInit ==
    /\ vpc = "start"
    /\ data_enum = <<>>
    /\ variants = <<>>
    /\ var = NoVariant
    /\ vattrs = <<>>
    /\ vcur = <<>>
    /\ vout = <<>>
    /\ vattr = <<>>
    /\ methods = <<>>
    /\ vresult = NoResult
    /\ ScalarIdle
    /\ DisplayIdle
    /\ AliasIdle
    /\ ParseIdle

RECURSIVE FlatLen(_)
FlatLen(ss) == IF ss = <<>> THEN 0 ELSE Len(Head(ss)) + FlatLen(Tail(ss))

RECURSIVE VariantEntries(_)
VariantEntries(vs) ==
    IF vs = <<>> THEN 0 ELSE FlatLen(Head(vs).attrs) + VariantEntries(Tail(vs))

\* entries read so far over all attributes of all variants
VEntriesRead == VariantEntries(variants) + FlatLen(vattrs) + Len(vcur)

\* lines 28-31: the derive is applied to a declaration of the given kind; vs
\* are the fields of the variants of an enum
MatchData(kind, vs) ==
    /\ vpc = "start"
    /\ IF kind = "Enum"
           THEN /\ vpc' = "variants"
                /\ data_enum' = vs
                /\ UNCHANGED vresult
           ELSE /\ vpc' = "done"
                /\ vresult' = Err("not_enum", SpanAst, "")
                /\ UNCHANGED data_enum
    /\ UNCHANGED <<variants, var, vattrs, vcur, vout, vattr, methods>>
    /\ UNCHANGED <<scalarVars, displayVars, aliasVars, parseVars>>

\* lines 34-35: the loop takes the next variant of the enum;
\* Field::try_from(var.fields)? returns its error from expand
NextVariant ==
    /\ vpc = "variants"
    /\ Len(variants) < Len(data_enum)
    /\ LET ident == VariantIdents[Len(variants) + 1]
           shape == data_enum[Len(variants) + 1]
           r == FieldTryFrom(shape)
       IN  /\ var' = [ident |-> ident, shape |-> shape]
           /\ IF r.ok
                  THEN /\ vpc' = "attrs"
                       /\ UNCHANGED vresult
                  ELSE /\ vpc' = "done"
                       /\ vresult' = r
    /\ UNCHANGED <<data_enum, variants, vattrs, vcur, vout, vattr, methods>>
    /\ UNCHANGED <<scalarVars, displayVars, aliasVars, parseVars>>

\* VariantAttr::parse, one iteration of its loop: the next entry is e
VParseEntry(e) ==
    /\ vpc = "attrs"
    /\ VEntriesRead < MaxVEntries
    /\ Len(vattrs) < MaxFragments
    /\ LET r == VariantAttrParseEntry(vout, e, Len(vattrs) + 1, Len(vcur) + 1)
       IN  IF r.ok
               THEN /\ vout' = r.val
                    /\ vcur' = Append(vcur, e)
                    /\ UNCHANGED <<vpc, vattrs, vresult>>
               ELSE /\ vresult' = r
                    /\ vpc' = "done"
                    /\ vattrs' = Append(vattrs, Append(vcur, e))
                    /\ vcur' = <<>>
                    /\ UNCHANGED vout
    /\ UNCHANGED <<data_enum, variants, var, vattr, methods>>
    /\ UNCHANGED <<scalarVars, displayVars, aliasVars, parseVars>>

\* the attribute (of at least one entry) is exhausted: parse returns Ok and
\* try_fold merges it
VEndAttr ==
    /\ vpc = "attrs"
    /\ vcur # <<>>
    /\ Len(vattrs) < MaxFragments
    /\ LET r == VariantAttrTryMerge(vattr, vout)
       IN  IF r.ok
               THEN /\ vattr' = r.val
                    /\ UNCHANGED <<vpc, vresult>>
               ELSE /\ vresult' = r
                    /\ vpc' = "done"
                    /\ UNCHANGED vattr
    /\ vattrs' = Append(vattrs, vcur)
    /\ vcur' = <<>>
    /\ vout' = <<>>
    /\ UNCHANGED <<data_enum, variants, var, methods>>
    /\ UNCHANGED <<scalarVars, displayVars, aliasVars, parseVars>>

\* lines 36-43: no attribute of the variant is left; from_attrs returns and
\* the variant is pushed under each method it names
EndVariant ==
    /\ vpc = "attrs"
    /\ vcur = <<>>
    /\ methods' = PushAll(methods, vattr, Len(vattr), var.ident,
                          FieldTryFrom(var.shape).val)
    /\ variants' = Append(variants, [ident |-> var.ident, shape |-> var.shape,
                                     attrs |-> vattrs])
    /\ vpc' = "variants"
    /\ var' = NoVariant
    /\ vattrs' = <<>>
    /\ vattr' = <<>>
    /\ UNCHANGED <<data_enum, vcur, vout, vresult>>
    /\ UNCHANGED <<scalarVars, displayVars, aliasVars, parseVars>>

\* lines 46-52: no variant is left; the Definition is turned into tokens
EmitValue ==
    /\ vpc = "variants"
    /\ Len(variants) = Len(data_enum)
    /\ vresult' = Ok(ValueDefinitionToTokens(variants, methods))
    /\ vpc' = "done"
    /\ UNCHANGED <<data_enum, variants, var, vattrs, vcur, vout, vattr, methods>>
    /\ UNCHANGED <<scalarVars, displayVars, aliasVars, parseVars>>

NextValue ==
    \/ \E vs \in EnumDecls : MatchData("Enum", vs)
    \/ \E kind \in {"Struct", "Union"} : MatchData(kind, <<>>)
    \/ NextVariant
    \/ \E e \in VEntries : VParseEntry(e)
    \/ VEndAttr
    \/ EndVariant
    \/ EmitValue

SpecValue == ValueInit /\ [][NextValue]_vars


(***************************************************************************)
(***************************************************************************)
(* Definition::impl_display_tokens over enums with generic parameters and  *)
(* payloads of any of the types above.                                     *)
(***************************************************************************)
DisplayInit ==
    /\ dpc = "loop"
    /\ generics \in GenericParams
    /\ payloads \in SeqsUpTo(PayloadTypes, MaxVariants)
    /\ checked = <<>>
    /\ predicates = <<>>
    /\ dresult = <<>>
    /\ ScalarIdle
    /\ ValueIdle
    /\ AliasIdle
    /\ ParseIdle

\* lines 309-321: one iteration of `for var in &self.variants`
CheckVariant ==
    /\ dpc = "loop"
    /\ Len(checked) < Len(payloads)
    /\ LET var_ty == payloads[Len(checked) + 1]
           found == IsVariantGeneric(generics, var_ty)
       IN  /\ checked' = Append(checked, found)
           /\ predicates' = predicates \o DisplayPredicate(found, var_ty)
    /\ UNCHANGED <<dpc, generics, payloads, dresult>>
    /\ UNCHANGED <<scalarVars, valueVars, aliasVars, parseVars>>

\* lines 322-345: the where clause and the arms are put together
EmitDisplay ==
    /\ dpc = "loop"
    /\ Len(checked) = Len(payloads)
    /\ dresult' = <<[where |-> predicates,
                     arms |-> [k \in 1..Len(payloads) |->
                                  DisplayArm(VariantIdents[k], None)]]>>
    /\ dpc' = "done"
    /\ UNCHANGED <<generics, payloads, checked, predicates>>
    /\ UNCHANGED <<scalarVars, valueVars, aliasVars, parseVars>>

NextDisplay == CheckVariant \/ EmitDisplay

SpecDisplay == DisplayInit /\ [][NextDisplay]_vars

(***************************************************************************)
(* Both derives: a run is one expansion of either.                         *)
(***************************************************************************)
InitDerives == Init \/ ValueInit

NextDerives == Next \/ NextValue

SpecDerives == InitDerives /\ [][NextDerives]_vars

(***************************************************************************)
(* The validation rule Aliases (limit_number_of_aliases.rs 8-50).  A run   *)
(* is the walk of one document by one rule value: the visitor enters       *)
(* operation definitions and fields in document order.                     *)
(***************************************************************************)
\* aliased fields entered in one operation
MaxAliased == 257

\* operation definitions of the document
MaxOperations == 2

\* u8::MAX, the width of alias_count (line 9)
U8Max == 255

\* max_allowed of factory() (line 16)
MaxAllowed == 3

\* field.item.alias: a Spanning<String>, its text and start position
FieldAliases ==
    {[some |-> FALSE]}
    \cup {[some |-> TRUE, val |-> [item |-> n, start |-> p]] :
            n \in {"a", "b"}, p \in {1}}

\* factory(): alias_count 0, max_allowed 3
Factory ==
    /\ apc = "created"
    /\ alias_count = 0
    /\ max_allowed = MaxAllowed
    /\ field_alias = [some |-> FALSE]
    /\ op_aliased = 0
    /\ op_errors = 0
    /\ last_error = NoError
    /\ op_index = 0
    /\ earlier_aliased = 0
    /\ in_fragment = FALSE

AliasInit == ScalarIdle /\ ValueIdle /\ DisplayIdle /\ ParseIdle /\ Factory

\* error_message (lines 48-50)
ErrorMessage(alias_name) ==
    <<"Illegal number of aliases, ", alias_name, " is not allowed">>

\* enter_operation_definition without the reset of line 29
EnterOperationDefinitionNoReset ==
    /\ apc \in {"created", "operation"}
    /\ op_index < MaxOperations
    /\ apc' = "operation"
    /\ alias_count' = alias_count
    /\ op_aliased' = 0
    /\ op_errors' = 0
    /\ op_index' = op_index + 1
    /\ earlier_aliased' = earlier_aliased + op_aliased
    /\ in_fragment' = FALSE
    /\ UNCHANGED <<max_allowed, field_alias, last_error>>
    /\ UNCHANGED <<scalarVars, valueVars, displayVars, parseVars>>

\* enter_operation_definition (lines 24-30)
EnterOperationDefinition ==
    /\ apc \in {"created", "operation"}
    /\ op_index < MaxOperations
    /\ apc' = "operation"
    /\ alias_count' = 0
    /\ op_aliased' = 0
    /\ op_errors' = 0
    /\ op_index' = op_index + 1
    /\ earlier_aliased' = earlier_aliased + op_aliased
    /\ in_fragment' = FALSE
    /\ UNCHANGED <<max_allowed, field_alias, last_error>>
    /\ UNCHANGED <<scalarVars, valueVars, displayVars, parseVars>>

\* enter_fragment_definition: not overridden by the impl of lines 20-46, so
\* the empty default of the Visitor trait
EnterFragmentDefinition ==
    /\ apc \in {"created", "operation"}
    /\ in_fragment' = TRUE
    /\ UNCHANGED <<apc, alias_count, max_allowed, field_alias, op_aliased,
                   op_errors, last_error, op_index, earlier_aliased>>
    /\ UNCHANGED <<scalarVars, valueVars, displayVars, parseVars>>

\* enter_field (lines 32-45) on a field whose alias is `alias`, a field of
\* the operation or of the fragment definition the visitor is in.  At
\* alias_count = 255 the increment of line 40 overflows: a build with
\* overflow checks panics there, one without wraps to 0.
EnterField(alias) ==
    /\ apc = "operation" \/ (apc = "created" /\ in_fragment)
    /\ field_alias' = alias
    /\ IF alias.some
           THEN /\ op_aliased < MaxAliased
                /\ op_aliased' = op_aliased + 1
                /\ \/ /\ alias_count = U8Max
                      /\ apc' = "panicked"
                      /\ last_error' = NoError
                      /\ UNCHANGED <<alias_count, op_errors>>
                   \/ /\ alias_count' = (alias_count + 1) % (U8Max + 1)
                      /\ apc' = apc
                      /\ IF alias_count' > max_allowed
                             THEN /\ last_error' = [message |-> ErrorMessage(alias.val.item),
                                                    locations |-> <<alias.val.start>>]
                                  /\ op_errors' = op_errors + 1
                             ELSE /\ last_error' = NoError
                                  /\ op_errors' = op_errors
           ELSE /\ last_error' = NoError
                /\ UNCHANGED <<apc, alias_count, op_aliased, op_errors>>
    /\ UNCHANGED <<max_allowed, op_index, earlier_aliased, in_fragment>>
    /\ UNCHANGED <<scalarVars, valueVars, displayVars, parseVars>>

NextAliases ==
    \/ EnterOperationDefinition
    \/ EnterFragmentDefinition
    \/ \E alias \in FieldAliases : EnterField(alias)

SpecAliases == AliasInit /\ [][NextAliases]_vars

(***************************************************************************)
(* Parse::parse on one whole attribute: the `while !input.is_empty()` loop *)
(* of Attr::parse (derive.rs 200-317) and of VariantAttr::parse            *)
(* (derive_scalar_value.rs 82-112), every `?` and `return Err` leaving it. *)
(***************************************************************************)
\* Attr::parse reporting the last entry that fails instead of the first
RECURSIVE AttrParseLastFailure(_, _)
AttrParseLastFailure(es, n) ==
    IF n = 0 THEN Ok(AttrDefault)
    ELSE LET p == AttrParseLastFailure(es, n - 1)
             r == AttrParseEntry(IF p.ok THEN p.val ELSE AttrDefault, es[n], 1, n)
         IN  IF r.ok /\ ~p.ok THEN p ELSE r

\* Attr::parse over the first n entries of the attribute es
RECURSIVE AttrParse(_, _)
AttrParse(es, n) ==
    IF n = 0 THEN Ok(AttrDefault)
    ELSE LET p == AttrParse(es, n - 1)
         IN  IF p.ok THEN AttrParseEntry(p.val, es[n], 1, n) ELSE p

\* VariantAttr::parse over the first n entries of the attribute es
RECURSIVE VariantAttrParse(_, _)
VariantAttrParse(es, n) ==
    IF n = 0 THEN Ok(<<>>)
    ELSE LET p == VariantAttrParse(es, n - 1)
         IN  IF p.ok THEN VariantAttrParseEntry(p.val, es[n], 1, n) ELSE p

ParseInit ==
    /\ ppc = "start"
    /\ \/ \E es \in SeqsUpTo(Entries, MaxEntries) :
            fragment = [derive |-> "scalar", entries |-> es]
       \/ \E es \in SeqsUpTo(VEntries, MaxVEntries) :
            fragment = [derive |-> "value", entries |-> es]
    /\ parsed = NoResult
    /\ ScalarIdle /\ ValueIdle /\ DisplayIdle /\ AliasIdle

\* attr.parse_args() for the scalar derive
ParseArgsAttr ==
    /\ ppc = "start"
    /\ fragment.derive = "scalar"
    /\ parsed' = AttrParse(fragment.entries, Len(fragment.entries))
    /\ ppc' = "done"
    /\ UNCHANGED fragment
    /\ UNCHANGED <<scalarVars, valueVars, displayVars, aliasVars>>

\* attr.parse_args() for a variant of the value derive
ParseArgsVariantAttr ==
    /\ ppc = "start"
    /\ fragment.derive = "value"
    /\ parsed' = VariantAttrParse(fragment.entries, Len(fragment.entries))
    /\ ppc' = "done"
    /\ UNCHANGED fragment
    /\ UNCHANGED <<scalarVars, valueVars, displayVars, aliasVars>>

NextParse == ParseArgsAttr \/ ParseArgsVariantAttr

SpecParse == ParseInit /\ [][NextParse]_vars

(***************************************************************************)
(* Properties                                                              *)
(***************************************************************************)
(***************************************************************************)
\* the positions <<f, i>> of the entries of the attributes read
Positions(frags) ==
    UNION {{<<f, i>> : i \in 1..Len(frags[f])} : f \in 1..Len(frags)}

\* the keys the scalar derive recognizes
OptionKeys == EqKeys \cup {"specified_by_url", "parse_token"}

\* two spellings of one option: the same key, desc/description, or
\* parse_token/parse_token_with
SameOption(k1, k2) ==
    \/ k1 = k2
    \/ {k1, k2} = {"desc", "description"}
    \/ {k1, k2} = {"parse_token", "parse_token_with"}

\* some option key occurs a second time in the attributes read
RepeatedOption(frags) ==
    \E p \in Positions(frags), q \in Positions(frags) :
        /\ p # q
        /\ frags[p[1]][p[2]].key \in OptionKeys
        /\ SameOption(frags[p[1]][p[2]].key, frags[q[1]][q[2]].key)

\* an entry Attr::parse accepts when it stands alone
WellFormed(e) ==
    /\ e.key \in OptionKeys
    /\ e.val # BadUrl
    /\ ~(e.key = "parse_token" /\ e.form = "paren" /\ e.types = <<>>)

AllWellFormed(frags) ==
    \A p \in Positions(frags) : WellFormed(frags[p[1]][p[2]])

\* C1 as stated: whenever an option key occurs a second time among the
\* attributes read, expand has returned the duplicate-argument error.
C1_AnyRepeatIsDupArg ==
    (pc = "done" /\ RepeatedOption(attrs))
        => (~result.ok /\ result.kind = "dup_arg")

\* C1, amended: whenever an option key occurs a second time among the
\* attributes read, expand returns an error and emits nothing; the error is
\* the duplicate-argument error when every entry read is well-formed on its
\* own (a recognized key, a valid URL, a non-empty parse_token list).
C1_RepeatIsError ==
    (pc # "parse" /\ RepeatedOption(attrs))
        => /\ pc = "done"
           /\ ~result.ok
           /\ definition = NoDefinition
           /\ AllWellFormed(attrs) => result.kind = "dup_arg"

\* C1 witness: desc in one attribute and description in the next one
C1_Witness ==
    /\ pc = "done"
    /\ Len(attrs) = 2
    /\ Len(attrs[1]) = 1 /\ attrs[1][1].key = "description"
    /\ Len(attrs[2]) = 1 /\ attrs[2][1].key = "desc"
    /\ result.kind = "dup_arg"


\* the projection operation an attribute key of a variant names
\* (as_bool and as_boolean name the same one)
OperationOf(key) ==
    CASE key \in {"as_bool", "as_boolean"} -> "AsBoolean"
      [] key = "as_int" -> "AsInt"
      [] key = "as_float" -> "AsFloat"
      [] key = "as_str" -> "AsStr"
      [] key = "as_string" -> "AsString"
      [] key = "into_string" -> "IntoString"
      [] OTHER -> "none"

\* the same projection operation key appears in two attributes
RepeatedAcrossAttrs(frags) ==
    \E p \in Positions(frags), q \in Positions(frags) :
        /\ p[1] # q[1]
        /\ OperationOf(frags[p[1]][p[2]].key) # "none"
        /\ OperationOf(frags[p[1]][p[2]].key) = OperationOf(frags[q[1]][q[2]].key)

\* C2: VariantAttr::from_attrs never returns Ok for a variant one of whose
\* projection operation keys appears in two or more of its attributes,
\* whatever resolvers the occurrences carry (it returns the
\* duplicate-argument error), so no such variant gets past line 36.
C2_RepeatAcrossAttrsIsRejected ==
    \A k \in 1..Len(variants) : ~RepeatedAcrossAttrs(variants[k].attrs)


\* the entries of the attributes read whose key is `key`
EntriesOf(key) ==
    {attrs[p[1]][p[2]] : p \in {q \in Positions(attrs) : attrs[q[1]][q[2]].key = key}}

Supplied(key) == EntriesOf(key) # {}

\* the value written for `key` (when it is supplied once)
ValueOf(key) == (CHOOSE e \in EntriesOf(key) : TRUE).val

\* exactly one of from_input_with / from_input_err is supplied
ExactlyOneOfPair == Supplied("from_input_with") # Supplied("from_input_err")

\* C3: in every configuration with exactly one of from_input_with /
\* from_input_err, whatever other keys it holds (a `with` module alias
\* included) and whatever the shape of the declaration, expand returns the
\* pairing error, before the shape is looked at.
C3_OneOfPairIsPairingError ==
    (pc = "done" /\ ExactlyOneOfPair)
        => (~result.ok /\ result.kind = "tandem")

\* the token parser a configuration names: parse_token_with = path,
\* parse_token = type or parse_token(types)
ExplicitParseToken ==
    IF Supplied("parse_token_with")
        THEN [variant |-> "Custom", path |-> ValueOf("parse_token_with"),
              types |-> <<>>]
        ELSE LET e == CHOOSE x \in EntriesOf("parse_token") : TRUE
             IN  [variant |-> "Delegated", path |-> "",
                  types |-> IF e.form = "eq" THEN <<e.val>> ELSE e.types]

SuppliedParseToken == Supplied("parse_token_with") \/ Supplied("parse_token")

\* C4: with a `with` module alias, each behaviour that has an explicit
\* override resolves to that override, and a member of the alias is used
\* only for a behaviour without one, for each of the four independently.
C4_ExplicitWinsOverAlias ==
    (pc = "done" /\ Supplied("with"))
        => /\ result.ok
           /\ LET m == definition.methods
                  alias == ValueOf("with")
              IN  /\ Supplied("to_output_with")
                        => m.to_output = ValueOf("to_output_with")
                  /\ Supplied("from_input_with")
                        => m.from_input[1] = ValueOf("from_input_with")
                  /\ Supplied("from_input_err")
                        => m.from_input[2] = ValueOf("from_input_err")
                  /\ SuppliedParseToken => m.parse_token = ExplicitParseToken
                  /\ m.to_output = alias \o "::to_output"
                        => ~Supplied("to_output_with")
                  /\ m.from_input[1] = alias \o "::from_input"
                        => ~Supplied("from_input_with")
                  /\ m.from_input[2] = alias \o "::Error"
                        => ~Supplied("from_input_err")
                  /\ (m.parse_token.variant = "Custom"
                      /\ m.parse_token.path = alias \o "::parse_token")
                        => ~SuppliedParseToken

\* C4 witness: alias, an explicit to_output_with and from_input_err, no
\* from_input_with
C4_Witness ==
    /\ pc = "done"
    /\ result.ok
    /\ Supplied("with") /\ Supplied("to_output_with") /\ Supplied("from_input_err")
    /\ ~Supplied("from_input_with") /\ ~SuppliedParseToken
    /\ definition.methods.to_output = ValueOf("to_output_with")
    /\ definition.methods.from_input[1] = ValueOf("with") \o "::from_input"

AllFourSupplied ==
    /\ Supplied("to_output_with")
    /\ Supplied("from_input_with")
    /\ Supplied("from_input_err")
    /\ SuppliedParseToken

\* C5: with to_output, from_input, from_input_err and a token parser all
\* explicit and no module alias, expand succeeds for every shape of the
\* declaration, with the Custom strategy of exactly those four references.
C5_AllExplicitIsCustom ==
    (pc = "done" /\ AllFourSupplied /\ ~Supplied("with"))
        => /\ result.ok
           /\ definition.methods =
                [variant |-> "Custom",
                 to_output |-> ValueOf("to_output_with"),
                 from_input |-> <<ValueOf("from_input_with"),
                                  ValueOf("from_input_err")>>,
                 parse_token |-> ExplicitParseToken]

\* C5 witness: all four explicit on a struct of two fields
C5_Witness ==
    /\ pc = "done"
    /\ AllFourSupplied /\ ~Supplied("with")
    /\ data.kind = "Struct" /\ Len(data.fields) = 2
    /\ result.ok
    /\ definition.methods.variant = "Custom"

\* C6: with a module alias M, every behaviour without an explicit override
\* is the canonical member of M (M::to_output, M::from_input, M::Error,
\* M::parse_token), the strategy is Custom, and expand succeeds for every
\* shape of the declaration.
C6_AliasDefaults ==
    (pc = "done" /\ Supplied("with"))
        => /\ result.ok
           /\ definition.methods.variant = "Custom"
           /\ LET m == definition.methods
                  alias == ValueOf("with")
              IN  /\ ~Supplied("to_output_with")
                        => m.to_output = alias \o "::to_output"
                  /\ ~Supplied("from_input_with")
                        => m.from_input[1] = alias \o "::from_input"
                  /\ ~Supplied("from_input_err")
                        => m.from_input[2] = alias \o "::Error"
                  /\ ~SuppliedParseToken
                        => m.parse_token =
                              [variant |-> "Custom",
                               path |-> alias \o "::parse_token",
                               types |-> <<>>]

\* C6 witness: the alias alone, on an enum
C6_Witness ==
    /\ pc = "done"
    /\ Supplied("with")
    /\ ~Supplied("to_output_with") /\ ~Supplied("from_input_with")
    /\ ~Supplied("from_input_err") /\ ~SuppliedParseToken
    /\ data.kind = "Enum"
    /\ result.ok
    /\ definition.methods.from_input = <<"p::from_input", "p::Error">>


\* the pairing rule holds: from_input_with and from_input_err both or neither
PairingSatisfied == ~ExactlyOneOfPair

SingleFieldStruct ==
    /\ data.kind = "Struct"
    /\ data.style \in {"Named", "Unnamed"}
    /\ Len(data.fields) = 1

ShapeErrors ==
    {"shape_not_struct", "shape_unit", "shape_unnamed", "shape_named"}

\* C7: with no module alias, not all four behaviours explicit and the pairing
\* rule satisfied, expand succeeds if and only if the declaration is a struct
\* of exactly one field (named or positional); every other shape is a shape
\* error with nothing emitted; on success the strategy is Delegated with
\* exactly the configured overrides and the sole field.
C7_DelegatedIffSingleField ==
    (pc = "done" /\ ~Supplied("with") /\ ~AllFourSupplied /\ PairingSatisfied)
        => /\ result.ok <=> SingleFieldStruct
           /\ ~result.ok => (result.kind \in ShapeErrors /\ definition = NoDefinition)
           /\ result.ok =>
                definition.methods =
                    [variant |-> "Delegated",
                     to_output |-> IF Supplied("to_output_with")
                                       THEN Some(ValueOf("to_output_with"))
                                       ELSE None,
                     from_input |-> IF Supplied("from_input_with")
                                        THEN Some(<<ValueOf("from_input_with"),
                                                    ValueOf("from_input_err")>>)
                                        ELSE None,
                     parse_token |-> IF SuppliedParseToken
                                         THEN Some(ExplicitParseToken)
                                         ELSE None,
                     field |-> [variant |-> data.style,
                                ident |-> data.fields[1].ident,
                                ty |-> data.fields[1].ty]]

\* C7 witness: a one-field named struct with a to_output override succeeds,
\* Delegated
C7_Witness ==
    /\ pc = "done"
    /\ ~Supplied("with") /\ Supplied("to_output_with") /\ ~Supplied("from_input_with")
    /\ ~Supplied("from_input_err") /\ ~SuppliedParseToken
    /\ data.kind = "Struct" /\ data.style = "Named" /\ Len(data.fields) = 1
    /\ result.ok
    /\ definition.methods.variant = "Delegated"
    /\ definition.methods.field.ident = "x"

\* the place of the sole field in `self`: its name, or 0
FieldPlace == IF data.style = "Named" THEN data.fields[1].ident ELSE "0"

\* <FieldType as Trait<S>>
FieldAs(trait) ==
    <<"<", data.fields[1].ty, "as", trait, "<", definition.scalar, ">", ">">>

\* the call of the field's to_output on the field of self
FieldToOutputCall ==
    <<"::juniper::GraphQLScalar", "<", definition.scalar, ">", "::to_output",
      "(", "&", "self", ".", FieldPlace, ")">>

\* the call of the field's from_input_value on the input
FieldFromInputCall ==
    FieldAs("::juniper::FromInputValue") \o <<"::from_input_value", "(", "input", ")">>

\* the field's own error type
FieldErrorType == FieldAs("::juniper::FromInputValue") \o <<"::Error">>

\* the call of the field's from_str on the token
FieldParseTokenCall ==
    FieldAs("::juniper::ParseScalarValue") \o <<"::from_str", "(", "token", ")">>

\* the constructor of the declaration from the value of its sole field
SelfConstructor ==
    IF data.style = "Named"
        THEN <<"|v|", "Self", "{", data.fields[1].ident, ":", "v", "}">>
        ELSE <<"Self">>

ZeroOverrides ==
    /\ pc = "done"
    /\ result.ok
    /\ definition.methods.variant = "Delegated"
    /\ ~definition.methods.to_output.some
    /\ ~definition.methods.from_input.some
    /\ ~definition.methods.parse_token.some

\* C8 as stated: for a Delegated strategy with zero overrides each of the four
\* emitted behaviours is exactly a call of the sole field's same-named
\* behaviour on the same argument, nothing done to the argument or the result.
C8_EachBehaviourIsTheFieldCall ==
    ZeroOverrides
        => /\ result.val.GraphQLScalar.to_output = FieldToOutputCall
           /\ result.val.GraphQLScalar.from_input = FieldFromInputCall
           /\ result.val.GraphQLScalar.Error = FieldErrorType
           /\ result.val.GraphQLScalar.parse_token = FieldParseTokenCall

\* C8, amended: for a Delegated strategy with zero overrides, to-output, the
\* from-input error type and token-parse are exactly the sole field's
\* same-named behaviour on the same argument; from-input is the field's
\* from-input on the same argument whose result is mapped through the
\* constructor of the declaration (`.map(Self)` or `.map(|v| Self { f: v })`).
C8_FieldCallsAndWrappedFromInput ==
    ZeroOverrides
        => /\ result.val.GraphQLScalar.to_output = FieldToOutputCall
           /\ result.val.GraphQLScalar.from_input =
                FieldFromInputCall \o <<".map", "(">> \o SelfConstructor \o <<")">>
           /\ result.val.GraphQLScalar.Error = FieldErrorType
           /\ result.val.GraphQLScalar.parse_token = FieldParseTokenCall

\* C8 witness: a one-field named struct with no override at all
C8_Witness ==
    /\ ZeroOverrides
    /\ data.style = "Named"
    /\ result.val.GraphQLScalar.from_input[Len(FieldFromInputCall) + 1] = ".map"

\* the number of positions of ts holding the token t
Count(ts, t) == Cardinality({k \in 1..Len(ts) : ts[k] = t})

\* C9: emission is decided per behaviour: a Custom strategy, or a Delegated
\* one with an override for the behaviour, emits the call of the configured
\* reference on the value / the token; a Delegated one without that override
\* emits the call of the sole field's implementation, whatever the other
\* overrides; the from-input error type is the configured from_input_err when
\* there is a from-input override and the field's own error type otherwise.
C9_EmissionPerBehaviour ==
    (pc = "done" /\ result.ok)
        => LET m == definition.methods
               t == result.val.GraphQLScalar
               custom == m.variant = "Custom"
           IN  /\ t.to_output =
                    IF custom THEN <<m.to_output, "(", "self", ")">>
                    ELSE IF m.to_output.some
                        THEN <<m.to_output.val, "(", "self", ")">>
                    ELSE FieldToOutputCall
               /\ t.from_input =
                    IF custom THEN <<m.from_input[1], "(", "input", ")">>
                    ELSE IF m.from_input.some
                        THEN <<m.from_input.val[1], "(", "input", ")">>
                    ELSE FieldFromInputCall \o <<".map", "(">>
                            \o SelfConstructor \o <<")">>
               /\ t.Error =
                    IF custom THEN <<m.from_input[2]>>
                    ELSE IF m.from_input.some THEN <<m.from_input.val[2]>>
                    ELSE FieldErrorType
               /\ IF custom \/ m.parse_token.some
                      THEN LET pt == IF custom THEN m.parse_token
                                               ELSE m.parse_token.val
                           IN  IF pt.variant = "Custom"
                                   THEN t.parse_token = <<pt.path, "(", "token", ")">>
                                   ELSE /\ SubSeq(t.parse_token, 1, 2) = <<"<", pt.types[1]>>
                                        /\ SubSeq(t.parse_token, 9, 12)
                                              = <<"::from_str", "(", "token", ")">>
                                        /\ Count(t.parse_token, "token") = Len(pt.types)
                      ELSE t.parse_token = FieldParseTokenCall
               /\ t.Error = result.val.FromInputValue.Error
               /\ ~custom
                      => IF Supplied("from_input_with")
                             THEN t.Error = <<ValueOf("from_input_err")>>
                             ELSE t.Error = FieldErrorType

\* C9 witness: Delegated with a to_output and a token-parse override and no
\* from-input override: the error type is the field's
C9_Witness ==
    /\ pc = "done"
    /\ result.ok
    /\ definition.methods.variant = "Delegated"
    /\ definition.methods.to_output.some
    /\ definition.methods.parse_token.some
    /\ ~definition.methods.from_input.some
    /\ result.val.GraphQLScalar.Error = FieldErrorType
    /\ result.val.GraphQLScalar.to_output = <<ValueOf("to_output_with"), "(", "self", ")">>

\* C9 witness, second case: Delegated with a from-input override only: the
\* error type is the configured from_input_err
C9_WitnessOverride ==
    /\ pc = "done"
    /\ result.ok
    /\ definition.methods.variant = "Delegated"
    /\ definition.methods.from_input.some
    /\ ~definition.methods.to_output.some
    /\ result.val.GraphQLScalar.Error = <<ValueOf("from_input_err")>>

\* the variant v carries the key of the operation in one of its attributes
OptedInto(v, operation) ==
    \E p \in Positions(v.attrs) : OperationOf(v.attrs[p[1]][p[2]].key) = operation

\* what the emitted `match self { arms.. _ => None }` of one operation
\* returns on a value of the variant named ident
EvalOn(impl, ident) ==
    IF \E j \in 1..Len(impl.arms) : impl.arms[j].pat[2] = ident
        THEN "Some"
    ELSE IF impl.otherwise = <<"_", "=>", "None">>
        THEN "None"
    ELSE "no arm"

\* C10: for every one of the six projection operations P and every variant V
\* not opted into P, the emitted P returns None on the values of V: V has no
\* match arm in P and falls through to `_ => None`.
C10_NotOptedIsNone ==
    (vpc = "done" /\ vresult.ok)
        => \A k \in 1..Len(Methods), i \in 1..Len(variants) :
              ~OptedInto(variants[i], Methods[k])
                  => EvalOn(vresult.val.ScalarValue[k], variants[i].ident) = "None"

\* C10 witness: V1 opted into as_int only and V2 into as_float only: as_int
\* has an arm for V1 and is None on V2, as_str is None on both
C10_Witness ==
    /\ vpc = "done"
    /\ vresult.ok
    /\ Len(variants) = 2
    /\ OptedInto(variants[1], "AsInt") /\ ~OptedInto(variants[2], "AsInt")
    /\ OptedInto(variants[2], "AsFloat")
    /\ EvalOn(vresult.val.ScalarValue[1], "V1") = "Some"
    /\ EvalOn(vresult.val.ScalarValue[1], "V2") = "None"
    /\ EvalOn(vresult.val.ScalarValue[3], "V1") = "None"
    /\ EvalOn(vresult.val.ScalarValue[3], "V2") = "None"


\* the value `Self::V(v)` / `Self::V { f: v }` the emitted `fn from` builds
\* from the payload p
Construct(from, p) ==
    [variant |-> from[2], place |-> SubSeq(from, 3, Len(from)), payload |-> p]

\* what the emitted `if let Decl::V(v) = ty { Some(v) } else { None }`
\* returns on a value
IfLetOn(conv, value) ==
    LET n == Len(conv) - 12
    IN  IF /\ conv[5] = value.variant
           /\ SubSeq(conv, 6, n) = value.place
           /\ SubSeq(conv, n + 1, n + 9) = <<"=", "ty", "{", "Some", "(", "v", ")", "}", "else">>
            THEN Some(value.payload)
        ELSE IF SubSeq(conv, n + 9, n + 12) = <<"else", "{", "None", "}">>
            THEN None
        ELSE [some |-> TRUE, val |-> "other"]

\* C11: for every variant V of the enum, opted into an operation or not, and
\* every payload p, the emitted owning and reference inverse conversions of V
\* return Some(p) on the value V's constructing conversion builds from p, and
\* None on a value built by any other variant.
C11_InverseRoundTrip ==
    (vpc = "done" /\ vresult.ok)
        => /\ Len(vresult.val.From) = Len(variants)
           /\ \A k \in 1..Len(variants), j \in 1..Len(variants) :
                LET value == Construct(vresult.val.From[j].from, "p")
                    expected == IF j = k THEN Some("p") ELSE None
                IN  /\ vresult.val.From[j].from[2] = variants[j].ident
                    /\ IfLetOn(vresult.val.From[k].into_option, value) = expected
                    /\ IfLetOn(vresult.val.From[k].ref_into_option, value) = expected

\* C11 witness: two variants, the first opted into nothing, the second into
\* as_int; the round trip of the first holds and its inverse is None on the
\* second
C11_Witness ==
    /\ vpc = "done"
    /\ vresult.ok
    /\ Len(variants) = 2
    /\ variants[1].attrs = <<>>
    /\ variants[2].attrs # <<>>
    /\ variants[1].shape.style = "Named"
    /\ IfLetOn(vresult.val.From[1].into_option,
               Construct(vresult.val.From[1].from, "p")) = Some("p")
    /\ IfLetOn(vresult.val.From[1].ref_into_option,
               Construct(vresult.val.From[2].from, "p")) = None

\* the canonical default conversion of each projection operation
CanonicalDefault(operation) ==
    CASE operation = "AsInt" -> <<"i32::from", "(", "*v", ")">>
      [] operation = "AsFloat" -> <<"f64::from", "(", "*v", ")">>
      [] operation = "AsStr" -> <<"std::convert::AsRef::as_ref", "(", "v", ")">>
      [] operation = "AsString" -> <<"std::string::ToString::to_string", "(", "v", ")">>
      [] operation = "IntoString" -> <<"std::string::String::from", "(", "v", ")">>
      [] operation = "AsBoolean" -> <<"bool::from", "(", "*v", ")">>

\* the expression inside Some(..) that the emitted match of one operation
\* returns on a value of the variant named ident: that of the first arm
\* matching it
CallOn(impl, ident) ==
    LET matching == {j \in 1..Len(impl.arms) : impl.arms[j].pat[2] = ident}
    IN  IF matching = {} THEN <<>>
        ELSE impl.arms[CHOOSE j \in matching : \A i \in matching : j <= i].call

\* C12: for every variant V opted into operation P, the emitted P on a value
\* of V returns Some(f(v)) when the opt-in carries the resolver f and
\* Some(d_P(v)), d_P the canonical default of P, when it carries none.
C12_ResolverOrDefault ==
    (vpc = "done" /\ vresult.ok)
        => \A k \in 1..Len(Methods), i \in 1..Len(variants) :
              \A p \in Positions(variants[i].attrs) :
                LET e == variants[i].attrs[p[1]][p[2]]
                IN  OperationOf(e.key) = Methods[k]
                        => CallOn(vresult.val.ScalarValue[k], variants[i].ident)
                              = IF e.expr.some
                                    THEN <<e.expr.val, "(", "v", ")">>
                                    ELSE CanonicalDefault(Methods[k])

\* the variant has zero or two-or-more payload fields
OffendingShape(shape) == shape.style = "Unit" \/ shape.n # 1

Offending == {k \in 1..Len(data_enum) : OffendingShape(data_enum[k])}

FirstOffending == CHOOSE k \in Offending : \A j \in Offending : k <= j

\* C13 as stated: if any variant of the enum has zero or two-or-more payload
\* fields, expand returns the shape error (expected exactly 1 field) and no
\* binding, whatever the attributes of the variants and wherever the
\* offending variant is; a non-enum target yields an error and no binding.
C13_OffendingVariantIsShapeError ==
    /\ [](vpc = "done" /\ Offending # {}
            => ~vresult.ok /\ vresult.kind = "shape_variant")
    /\ [][vpc = "start" /\ vpc' = "done" => ~vresult'.ok]_vars

\* C13, amended: if any variant of the enum has zero or two-or-more payload
\* fields, expand returns an error and no binding, wherever the offending
\* variant is: the shape error (expected exactly 1 field) when the attributes
\* of every variant declared before the first offending one are accepted,
\* otherwise the unknown-argument or duplicate-argument error of the first
\* earlier variant whose attributes are rejected; a non-enum target yields
\* an error and no binding.
C13_OffendingVariantIsError ==
    /\ [](vpc = "done" /\ Offending # {}
            => /\ ~vresult.ok
               /\ IF Len(variants) + 1 = FirstOffending
                      THEN vresult.kind = "shape_variant"
                      ELSE /\ Len(variants) + 1 < FirstOffending
                           /\ vresult.kind \in {"unknown_arg", "dup_arg"})
    /\ [][vpc = "start" /\ vpc' = "done" => ~vresult'.ok]_vars

\* C13 witness: the second variant has two fields, the first one field and
\* an accepted attribute: the shape error
C13_Witness ==
    /\ vpc = "done"
    /\ Len(data_enum) = 2
    /\ ~OffendingShape(data_enum[1])
    /\ data_enum[2].n = 2
    /\ Len(variants) = 1
    /\ variants[1].attrs # <<>>
    /\ vresult.kind = "shape_variant"

\* the note of the warning for a missing operation (without the backquotes
\* around the attribute's name)
MissingNote(operation) ==
    CASE operation = "AsInt" -> "missing as_int attribute"
      [] operation = "AsFloat" -> "missing as_float attribute"
      [] operation = "AsStr" -> "missing as_str attribute"
      [] operation = "AsString" -> "missing as_string attribute"
      [] operation = "IntoString" -> "missing into_string attribute"
      [] operation = "AsBoolean" -> "missing as_boolean attribute"

\* the operations no variant gone through is opted into
MissingOperations ==
    {k \in 1..Len(Methods) :
        \A i \in 1..Len(variants) : ~OptedInto(variants[i], Methods[k])}

\* C14: the warnings emitted are exactly those of the operations no variant
\* is opted into, one each; a missing operation is no error of expand, and
\* the other bindings (the six operations, the conversions of every variant)
\* are emitted all the same.
C14_WarningsAreTheMissingOperations ==
    /\ (vpc = "done" /\ vresult.ok)
          => /\ {vresult.val.Warnings[j] : j \in 1..Len(vresult.val.Warnings)}
                    = {MissingNote(Methods[k]) : k \in MissingOperations}
             /\ Len(vresult.val.Warnings) = Cardinality(MissingOperations)
             /\ Len(vresult.val.ScalarValue) = Len(Methods)
             /\ Len(vresult.val.From) = Len(variants)
    /\ (vpc = "done" /\ ~vresult.ok)
          => vresult.kind \in {"not_enum", "shape_variant", "unknown_arg", "dup_arg"}
    /\ (vpc = "done" /\ ~vresult.ok /\ vresult.kind # "not_enum")
          => var # NoVariant

\* C14 witness: as_int and as_float are opted into, four warnings for the
\* other four operations
C14_Witness ==
    /\ vpc = "done"
    /\ vresult.ok
    /\ Len(variants) = 2
    /\ OptedInto(variants[1], "AsInt")
    /\ OptedInto(variants[2], "AsFloat")
    /\ vresult.val.Warnings =
          <<"missing as_str attribute", "missing as_string attribute",
            "missing into_string attribute", "missing as_boolean attribute">>

\* some type parameter of the enum occurs somewhere in the type
RECURSIVE Occurs(_)
Occurs(ty) ==
    \/ /\ ty.node = "Path"
       /\ ty.args = <<>>
       /\ \E k \in 1..Len(generics) :
              generics[k].kind = "Type" /\ generics[k].ident = ty.ident
    \/ \E k \in 1..Len(ty.args) : Occurs(ty.args[k])

\* the where clause has the bound `payload type: Display` of variant k
HasDisplayBound(k) ==
    \E j \in 1..Len(predicates) :
        predicates[j] = [ty |-> payloads[k], bound |-> "std::fmt::Display"]

\* the payload type of variant k is itself a type parameter of the enum
IsTypeParameter(k) ==
    /\ payloads[k].node = "Path"
    /\ payloads[k].args = <<>>
    /\ \E j \in 1..Len(generics) :
          generics[j].kind = "Type" /\ generics[j].ident = payloads[k].ident

C16_FoundIffOccurs ==
    \A k \in 1..Len(checked) : checked[k] <=> Occurs(payloads[k])

\* the implementations of a scalar: markers, type metadata, value resolve,
\* async resolve, to-input, from-input, token parsing, scalar trait,
\* reflection traits
ScalarBindings ==
    {"IsInputOutputType", "GraphQLType", "GraphQLValue", "GraphQLValueAsync",
     "ToInputValue", "FromInputValue", "ParseScalarValue", "GraphQLScalar",
     "Reflection"}

\* the implementations of a wrapper: ScalarValue, the conversions of the
\* variants, rendering, warnings
WrapperBindings == {"ScalarValue", "From", "Display", "Warnings"}

\* what an error carries: no tokens
ErrorFields == {"ok", "kind", "span", "arg"}

\* C17: a target yields all of its implementations or none: expand of the
\* scalar derive returns an error with nothing emitted or the nine groups of
\* implementations together, and expand of the wrapper derive an error with
\* nothing emitted or its four groups together; nothing is returned, and no
\* error arises, once the implementations have been emitted.
C17_AllOrNothing ==
    /\ pc \notin {"idle", "done"} => (result = NoResult /\ definition = NoDefinition)
    /\ pc = "done" =>
          IF result.ok
              THEN /\ DOMAIN result.val = ScalarBindings
                   /\ \A g \in ScalarBindings : result.val[g] # <<>>
                   /\ definition # NoDefinition
              ELSE /\ DOMAIN result = ErrorFields
                   /\ result.kind # "running"
                   /\ definition = NoDefinition
    /\ vpc \notin {"idle", "done"} => vresult = NoResult
    /\ vpc = "done" =>
          IF vresult.ok
              THEN /\ DOMAIN vresult.val = WrapperBindings
                   /\ Len(vresult.val.ScalarValue) = Len(Methods)
                   /\ Len(vresult.val.From) = Len(data_enum)
                   /\ Len(vresult.val.Display.arms) = Len(data_enum)
              ELSE /\ DOMAIN vresult = ErrorFields
                   /\ vresult.kind # "running"

\* C17 witness: the attributes of a scalar are accepted and the declaration
\* has two fields: the shape error and nothing emitted
C17_Witness ==
    /\ pc = "done"
    /\ attr.to_output.some
    /\ data.kind = "Struct" /\ Len(data.fields) = 2
    /\ ~result.ok
    /\ result.kind \in ShapeErrors
    /\ definition = NoDefinition

\* C17 witness, the wrapper: two variants, all four groups emitted
C17_WitnessWrapper ==
    /\ vpc = "done"
    /\ vresult.ok
    /\ Len(data_enum) = 2
    /\ DOMAIN vresult.val = WrapperBindings

\* the types written in the parse_token attribute, in the order written
ListedTypes ==
    LET e == CHOOSE x \in EntriesOf("parse_token") : TRUE
    IN  IF e.form = "eq" THEN <<e.val>> ELSE e.types

\* the call of one type's token parser, as emitted
IsFromStrCall(toks) == Len(toks) = 12 /\ toks = FromStrCall(toks[2], toks[6])

\* toks is `recv.or_else(|_| { call })`, k times, on a first call
RECURSIVE IsOrElseChain(_, _)
IsOrElseChain(toks, k) ==
    IF k = 0 THEN IsFromStrCall(toks)
    ELSE /\ Len(toks) = 12 + 18 * k
         /\ SubSeq(toks, Len(toks) - 17, Len(toks) - 14) = <<".or_else", "(", "|_|", "{">>
         /\ IsFromStrCall(SubSeq(toks, Len(toks) - 13, Len(toks) - 2))
         /\ SubSeq(toks, Len(toks) - 1, Len(toks)) = <<"}", ")">>
         /\ IsOrElseChain(SubSeq(toks, 1, Len(toks) - 18), k - 1)

\* running the emitted expression, a chain of k or_else on a first call, when
\* the token parser of the type t succeeds iff succeeds[t]: Result::or_else
\* returns an Ok receiver untouched and calls the closure on an Err one.
\* consulted lists the types whose parser ran, by is the position of the call
\* whose result is returned.
RECURSIVE RunOrElseChain(_, _, _)
RunOrElseChain(toks, k, succeeds) ==
    IF k = 0
        THEN [ok |-> succeeds[toks[2]], by |-> 1, consulted |-> <<toks[2]>>]
        ELSE LET recv == RunOrElseChain(SubSeq(toks, 1, Len(toks) - 18), k - 1,
                                        succeeds)
                 ty == toks[Len(toks) - 12]
             IN  IF recv.ok THEN recv
                 ELSE [ok |-> succeeds[ty], by |-> k + 1,
                       consulted |-> Append(recv.consulted, ty)]

\* the position of the first listed type whose parser succeeds, the last
\* position when none does
FirstSuccess(ts, succeeds) ==
    IF \E i \in 1..Len(ts) : succeeds[ts[i]]
        THEN CHOOSE i \in 1..Len(ts) :
                /\ succeeds[ts[i]]
                /\ \A j \in 1..(i - 1) : ~succeeds[ts[j]]
        ELSE Len(ts)

\* C18: with parse_token(T1, .., Tn) the emitted token parser tries the
\* listed types in the order written and returns the result of the first
\* whose parse succeeds, no later type being consulted; when every one fails
\* it returns the failure of the last; with one type it is that type's token
\* parser.
C18_FirstSuccessInListOrder ==
    (pc = "done" /\ result.ok /\ Supplied("parse_token"))
        => LET ts == ListedTypes
               toks == result.val.ParseScalarValue.from_str
               n == Len(ts)
           IN  /\ IsOrElseChain(toks, n - 1)
               /\ toks = result.val.GraphQLScalar.parse_token
               /\ n = 1 => toks = FromStrCall(ts[1], definition.scalar)
               /\ \A succeeds \in [Types -> BOOLEAN] :
                    LET r == RunOrElseChain(toks, n - 1, succeeds)
                        i == FirstSuccess(ts, succeeds)
                    IN  /\ r.by = i
                        /\ r.ok = succeeds[ts[i]]
                        /\ r.consulted = SubSeq(ts, 1, i)

\* C18 witness: two different types are listed and the emitted parser is the
\* first one's with the second one's in or_else
C18_Witness ==
    /\ pc = "done"
    /\ result.ok
    /\ Supplied("parse_token")
    /\ Len(ListedTypes) = 2
    /\ ListedTypes[1] # ListedTypes[2]
    /\ IsOrElseChain(result.val.ParseScalarValue.from_str, 1)
    /\ RunOrElseChain(result.val.ParseScalarValue.from_str, 1,
                      [t \in Types |-> t = ListedTypes[2]]).by = 2

\* C19: within one operation definition the i-th aliased field entered
\* causes exactly one error, with that alias's name in the message and its
\* start position, if i > 3 and none if i <= 3; a field without alias never
\* reports; k > 3 aliased fields in an operation yield exactly k - 3 errors.
C19_ErrorIffBeyondThird ==
    (op_index > 0 /\ ~in_fragment /\ op_aliased > 0) =>
        /\ apc # "panicked"
        /\ op_errors = IF op_aliased > MaxAllowed THEN op_aliased - MaxAllowed ELSE 0
        /\ ~field_alias.some => last_error = NoError
        /\ (field_alias.some /\ op_aliased <= MaxAllowed) => last_error = NoError
        /\ (field_alias.some /\ op_aliased > MaxAllowed)
              => last_error = [message |-> ErrorMessage(field_alias.val.item),
                               locations |-> <<field_alias.val.start>>]

\* C19: the 256th aliased field of an operation has been entered
C19_Overflowed ==
    /\ apc \in {"operation", "panicked"}
    /\ field_alias.some
    /\ op_aliased = U8Max + 1
    /\ last_error = NoError

\* the entries of an emitted `&[e1, e2, ..]`: the tokens between the
\* brackets, the commas left out
SliceEntries(toks) ==
    SelectSeq(SubSeq(toks, 3, Len(toks) - 1), LAMBDA t : t # ",")

\* what an entry of the subtype list evaluates to, given the emitted
\* reflection implementations
EntryValue(reflection, entry) ==
    IF entry = "<Self as BaseType>::NAME" THEN reflection.NAME ELSE <<entry>>

\* C20: for every successful expansion of the scalar derive the emitted
\* wrapped-type value is the constant 1 and the emitted subtype list has
\* exactly one entry, the type's own reflection name.
C20_ReflectionIsSelfOnly ==
    (pc = "done" /\ result.ok)
        => LET reflection == result.val.Reflection
               names == reflection.NAMES
           IN  /\ reflection.VALUE = <<"1">>
               /\ Len(names) >= 3
               /\ names[1] = "&" /\ names[2] = "[" /\ names[Len(names)] = "]"
               /\ Len(SliceEntries(names)) = 1
               /\ EntryValue(reflection, SliceEntries(names)[1]) = reflection.NAME
               /\ reflection.NAME = <<definition.name>>

\* C20 witness: a scalar with a configured name is expanded and its
\* reflection implementations carry that name
C20_Witness ==
    /\ pc = "done"
    /\ result.ok
    /\ Supplied("name")
    /\ result.val.Reflection.NAME = <<definition.name>>
    /\ result.val.Reflection.VALUE = <<"1">>
    /\ Len(SliceEntries(result.val.Reflection.NAMES)) = 1

\* the arguments of the .description(..) calls of an emitted builder chain
DescriptionCalls(meta) ==
    LET at == SelectSeq([i \in 1..Len(meta) |-> i],
                        LAMBDA i : meta[i] = ".description")
    IN  [k \in 1..Len(at) |-> meta[at[k] + 2]]

\* a description is configured, under either spelling of its key
SuppliedDescription == Supplied("description") \/ Supplied("desc")

ConfiguredDescription ==
    IF Supplied("description") THEN ValueOf("description") ELSE ValueOf("desc")

\* C21: the description attached to the metadata builder of a scalar is the
\* configured description/desc when one is given, whether or not the
\* declaration has documentation text, otherwise the documentation text when
\* there is any, and otherwise no description call is emitted; the
\* documentation is looked at once all attributes have been merged.
C21_DescriptionResolution ==
    (pc = "done" /\ result.ok)
        => LET calls == DescriptionCalls(result.val.GraphQLType.meta)
           IN  IF SuppliedDescription
                   THEN calls = <<ConfiguredDescription>>
                   ELSE IF doc.some
                            THEN calls = <<doc.val.val>>
                            ELSE calls = <<>>

\* C21 witness: the description is configured in the second attribute, the
\* declaration has documentation text, and the configured one is attached
C21_Witness ==
    /\ pc = "done"
    /\ result.ok
    /\ Len(attrs) = 2
    /\ attrs[1] # <<>>
    /\ \E i \in 1..Len(attrs[2]) : attrs[2][i].key \in {"desc", "description"}
    /\ doc.some
    /\ doc.val.val # ConfiguredDescription
    /\ DescriptionCalls(result.val.GraphQLType.meta) = <<ConfiguredDescription>>

\* C21 witness, the fallback: nothing is configured and the documentation
\* text is attached
C21_WitnessDoc ==
    /\ pc = "done"
    /\ result.ok
    /\ ~SuppliedDescription
    /\ doc.some
    /\ DescriptionCalls(result.val.GraphQLType.meta) = <<doc.val.val>>

\* the errors of the scalar derive raised by the configuration: unrecognized
\* key, duplicate key, pairing violation, shape violation
ConfigurationErrors ==
    {"unknown_arg", "dup_arg", "tandem", "shape_not_struct"} \cup ShapeErrors

\* C22: every configuration-time error returned by the scalar derive
\* (unrecognized key, duplicate key, pairing violation, shape violation)
\* carries the span of a key or value of one of the attributes, not the span
\* of the whole declaration.
C22_ErrorSpanIsInFragment ==
    (pc = "done" /\ ~result.ok /\ result.kind \in ConfigurationErrors)
        => /\ result.span # SpanAst
           /\ result.span.of \in {"ident", "value"}
           /\ result.span.frag \in 1..(Len(attrs) + 1)

\* the positions of the entries of the attribute whose key is no option of
\* its derive
UnknownAt ==
    {i \in 1..Len(fragment.entries) :
        IF fragment.derive = "scalar"
            THEN AttrSlot(fragment.entries[i].key) = "unknown"
            ELSE MethodOf(fragment.entries[i].key) = "unknown"}

FirstUnknown == CHOOSE i \in UnknownAt : \A j \in UnknownAt : i <= j

\* parse returned the unknown-argument error naming the first unrecognized
\* key of the attribute, at the span of that key
IsFirstUnknownError ==
    /\ ~parsed.ok
    /\ parsed.kind = "unknown_arg"
    /\ parsed.arg = fragment.entries[FirstUnknown].key
    /\ parsed.span = SpanIdent(1, FirstUnknown)

\* C23: an attribute containing a key outside the recognized set yields the
\* unknown-argument error naming that key, the first such key when there are
\* several, and no Attr or VariantAttr, for the scalar and the value derive.
C23_UnknownKeyIsUnknownArg ==
    (ppc = "done" /\ UnknownAt # {}) => IsFirstUnknownError

\* C23, amended: an attribute containing a key outside the recognized set
\* yields an error and no Attr or VariantAttr; entries are read left to right
\* and parse returns the error of the first failing entry, so the error is
\* the unknown-argument error naming the first unrecognized key unless an
\* earlier entry of a scalar attribute fails (a repeated key, an invalid URL,
\* an empty type list); for a variant's attribute it always is.
C23_UnknownKeyIsError ==
    (ppc = "done" /\ UnknownAt # {})
        => /\ ~parsed.ok
           /\ parsed.span.frag = 1
           /\ parsed.span.idx <= FirstUnknown
           /\ parsed.span.idx = FirstUnknown <=> IsFirstUnknownError
           /\ parsed.span.idx < FirstUnknown
                => /\ fragment.derive = "scalar"
                   /\ parsed.kind \in {"dup_arg", "invalid_url", "no_types"}
                   /\ AttrParse(fragment.entries, parsed.span.idx - 1).ok
           /\ fragment.derive = "value" => IsFirstUnknownError

\* C23 witness: two unrecognized keys in one attribute, the first is named
C23_Witness ==
    /\ ppc = "done"
    /\ UnknownAt = {1, 2}
    /\ fragment.entries[1].key # fragment.entries[2].key
    /\ IsFirstUnknownError

\* C23 witness: an entry of a scalar attribute fails before the unrecognized
\* key is read
C23_WitnessEarlier ==
    /\ ppc = "done"
    /\ UnknownAt = {2}
    /\ ~parsed.ok
    /\ parsed.kind = "invalid_url"

\* the errors reported for the first n aliased fields entered from a counter
\* at 0, the counter an 8-bit one that wraps
ReportedAfter(n) ==
    LET r == n % (U8Max + 1)
    IN  (n \div (U8Max + 1)) * (U8Max - MaxAllowed)
        + (IF r > MaxAllowed THEN r - MaxAllowed ELSE 0)

\* C24: entering an operation definition resets the alias counter to 0, so
\* the counter and the errors reported inside an operation are determined by
\* the aliased fields entered since that operation began, whatever the
\* number of aliased fields entered (and errors reported) before it.
C24_OperationStartsAfresh ==
    /\ (apc = "operation" /\ op_aliased = 0) => (alias_count = 0 /\ op_errors = 0)
    /\ apc = "operation"
          => /\ alias_count = op_aliased % (U8Max + 1)
             /\ op_errors = ReportedAfter(op_aliased)
             /\ (field_alias.some /\ op_aliased > 0)
                   => (last_error # NoError <=> alias_count > MaxAllowed)

\* C24 witness: the second operation of a document whose earlier part had
\* more than three aliased fields: its third aliased field reports nothing
C24_Witness ==
    /\ apc = "operation"
    /\ op_index = 2
    /\ earlier_aliased > MaxAllowed
    /\ ~in_fragment
    /\ field_alias.some
    /\ op_aliased = MaxAllowed
    /\ op_errors = 0
    /\ last_error = NoError

\* C25: after any sequence of visitor events alias_count equals the number
\* of aliased fields entered since the last operation start: the increment
\* never overflows or wraps, and every aliased field beyond the third is
\* reported, in an operation of 256 or more aliased fields too.
C25_CounterIsTrueCount ==
    apc \in {"created", "operation", "panicked"}
        => /\ apc # "panicked"
           /\ alias_count = op_aliased
           /\ (field_alias.some /\ op_aliased > MaxAllowed) => last_error # NoError

\* C26: max_allowed is 3 and never changes; alias_count is changed only by
\* enter_operation_definition, which sets it to 0, and by enter_field on a
\* field with an alias, which increments it by exactly 1; entering a field
\* without alias and entering a fragment definition leave alias_count and
\* the reported errors unchanged.
C26_FrameCondition ==
    [][/\ max_allowed = MaxAllowed /\ max_allowed' = max_allowed
       /\ EnterOperationDefinition => alias_count' = 0
       /\ (\E alias \in FieldAliases : alias.some /\ EnterField(alias))
             => alias_count' = alias_count + 1
       /\ (\E alias \in FieldAliases : ~alias.some /\ EnterField(alias))
             => UNCHANGED <<alias_count, op_errors>>
       /\ EnterFragmentDefinition => UNCHANGED <<alias_count, op_errors>>
       /\ alias_count' # alias_count
             => \/ EnterOperationDefinition
                \/ \E alias \in FieldAliases : alias.some /\ EnterField(alias)
      ]_vars

\* what an emitted body applies to self: the resolver called on it
\* (`path(self)`) or the field read from it (`self.field`)
SourceOfSelf(toks) ==
    LET i == CHOOSE k \in 1..Len(toks) : toks[k] = "self"
    IN  IF i < Len(toks) /\ toks[i + 1] = "."
            THEN [from |-> "field", of |-> toks[i + 2]]
            ELSE [from |-> "resolver", of |-> toks[i - 2]]

\* C27: in every expansion of the scalar derive the value-resolve, to-output
\* and to-input-value bodies are derived from the same source, the configured
\* to_output or the sole field; the FromInputValue error type and body are
\* those of GraphQLScalar; the ParseScalarValue::from_str body is the
\* GraphQLScalar::parse_token body.
C27_ImplementationsAgree ==
    (pc = "done" /\ result.ok)
        => LET t == result.val
               resolve == SourceOfSelf(t.GraphQLValue.resolve)
           IN  /\ SourceOfSelf(t.GraphQLScalar.to_output) = resolve
               /\ SourceOfSelf(t.ToInputValue.to_input_value) = resolve
               /\ resolve.from = "resolver"
                     <=> (Supplied("to_output_with") \/ Supplied("with"))
               /\ t.FromInputValue.Error = t.GraphQLScalar.Error
               /\ t.FromInputValue.from_input_value = t.GraphQLScalar.from_input
               /\ t.ParseScalarValue.from_str = t.GraphQLScalar.parse_token

\* C27 witness: a single-field struct with a to_output override only: the
\* three output bodies call the override, the input side goes to the field
C27_Witness ==
    /\ pc = "done"
    /\ result.ok
    /\ definition.methods.variant = "Delegated"
    /\ Supplied("to_output_with")
    /\ ~Supplied("from_input_with")
    /\ SourceOfSelf(result.val.GraphQLValue.resolve)
          = [from |-> "resolver", of |-> ValueOf("to_output_with")]
    /\ SourceOfSelf(result.val.ToInputValue.to_input_value)
          = [from |-> "resolver", of |-> ValueOf("to_output_with")]
    /\ result.val.FromInputValue.Error = result.val.GraphQLScalar.Error

\* the arms of the emitted match of one operation whose pattern is the
\* variant named ident
ArmsFor(impl, ident) == {j \in 1..Len(impl.arms) : impl.arms[j].pat[2] = ident}

\* C28: for every projection operation and every variant, the emitted match
\* of that operation has at most one arm for that variant, whether the key of
\* the operation is repeated inside one attribute of the variant or across
\* its attributes.
C28_AtMostOneArmPerVariant ==
    (vpc = "done" /\ vresult.ok)
        => \A k \in 1..Len(Methods), i \in 1..Len(variants) :
              Cardinality(ArmsFor(vresult.val.ScalarValue[k], variants[i].ident)) <= 1

\* C29: the emitted name of a scalar is the configured name when there is
\* one and the identifier of the declaration otherwise; what fn name of the
\* type metadata returns is the same string as the BaseType NAME constant and
\* as the sole entry of the subtype list.
C29_NameIsConfiguredOrIdent ==
    (pc = "done" /\ result.ok)
        => LET expected == IF Supplied("name") THEN ValueOf("name") ELSE DeclIdent
               reflection == result.val.Reflection
           IN  /\ result.val.GraphQLType.name = <<"Some", "(", expected, ")">>
               /\ reflection.NAME = <<expected>>
               /\ Len(SliceEntries(reflection.NAMES)) = 1
               /\ EntryValue(reflection, SliceEntries(reflection.NAMES)[1]) = <<expected>>

\* C29 witness: a configured name differing from the identifier is emitted
C29_Witness ==
    /\ pc = "done"
    /\ result.ok
    /\ Supplied("name")
    /\ ValueOf("name") # DeclIdent
    /\ result.val.GraphQLType.name = <<"Some", "(", ValueOf("name"), ")">>
    /\ result.val.Reflection.NAME = <<ValueOf("name")>>

\* C29 witness: no name is configured and the identifier is emitted
C29_WitnessIdent ==
    /\ pc = "done"
    /\ result.ok
    /\ ~Supplied("name")
    /\ result.val.GraphQLType.name = <<"Some", "(", DeclIdent, ")">>
    /\ result.val.Reflection.NAME = <<DeclIdent>>

\* the entries read that are a parse_token with an empty parenthesized list
EmptyParseTokenAt ==
    {p \in Positions(attrs) :
        /\ attrs[p[1]][p[2]].key = "parse_token"
        /\ attrs[p[1]][p[2]].form = "paren"
        /\ attrs[p[1]][p[2]].types = <<>>}

\* C30: a parenthesized parse_token() with an empty list of types is
\* rejected when it is parsed (expected at least 1 type), so every
\* ParseToken::Delegated that reaches emission holds at least one type and
\* the emitted token-parse body is never empty.
C30_EmptyTypeListIsRejected ==
    /\ (pc = "done" /\ EmptyParseTokenAt # {})
          => /\ ~result.ok
             /\ result.kind = "no_types"
             /\ \E p \in EmptyParseTokenAt : result.span = SpanIdent(p[1], p[2])
    /\ (pc \in {"expand", "done"} /\ attr.parse_token.some
            /\ attr.parse_token.val.val.variant = "Delegated")
          => attr.parse_token.val.val.types # <<>>
    /\ (pc = "done" /\ result.ok)
          => /\ result.val.ParseScalarValue.from_str # <<>>
             /\ result.val.GraphQLScalar.parse_token # <<>>

\* C30 witness: parse_token() with no type follows an accepted entry and the
\* expansion ends with the error at its key
C30_Witness ==
    /\ pc = "done"
    /\ ~result.ok
    /\ result.kind = "no_types"
    /\ EmptyParseTokenAt = {<<1, 2>>}
    /\ result.span = SpanIdent(1, 2)

\* C30 witness: a parenthesized list of two types reaches emission
C30_WitnessEmitted ==
    /\ pc = "done"
    /\ result.ok
    /\ Supplied("parse_token")
    /\ Len(ListedTypes) = 2
    /\ result.val.ParseScalarValue.from_str # <<>>

=============================================================================
